---- MODULE Spec2Model ----
(***************************************************************************)
(* Session feature-extraction pipeline of func_blocks_analysis:            *)
(* DataPreprocessor (src/func_blocks_analysis/src/data_preprocessing.py)   *)
(* and FunnelFeaturesExtractor                                             *)
(* (src/func_blocks_analysis/src/fb2/funnels/funnel_features_extractor.py).*)
(*                                                                         *)
(* merged_df is the shared table, a sequence of rows.  Column names are    *)
(* transliterated: device_id = 'Идентификатор устройства', session_number  *)
(* = 'Номер сессии в рамках устройства', event_time = 'Дата и время        *)
(* события' (whole seconds), screen = 'Экран', functional = 'Функционал',  *)
(* action = 'Действие'.  rid stands for the pass-through columns of a row  *)
(* (device model, OS, age, ...): no stage reads or writes them, and they   *)
(* tell the rows of the loaded table apart.  String values are             *)
(* transliterated as well ("Ne ukazano" = 'Не указано', "Esche" = 'Еще',   *)
(* "Otkrytie ekrana" = 'Открытие экрана', "Tap" = 'Тап').                  *)
(***************************************************************************)
EXTENDS Integers, Sequences, FiniteSets, TLC

VARIABLES merged_df,    \* self.merged_df: the rows, in table order
          columns,      \* the columns of merged_df that the stages read or write
          stage,        \* the last stage called ("load" before any call)
          error,        \* "none", or the exception the last call raised
          features,     \* what the last call returned, when it was transform:
                        \* the extractor's blocks_data and the feature rows
          events_df,    \* self.events_df: the events as load_data read them
          users_df,     \* self.users_df: the user rows
          raw_files,    \* events.csv and users.csv of config['data']['raw_path']
          local_merged_df   \* main's local merged_df, once self.merged_df has
                            \* been bound to another table

vars == <<merged_df, columns, stage, error, features, events_df, users_df,
         raw_files, local_merged_df>>

----------------------------------------------------------------------------
(* Bounds of the model *)

\* longest table loaded
MaxRows == 3

----------------------------------------------------------------------------
(* Values *)

\* a timestamp that pd.to_datetime(errors='coerce') could not parse
NaT == -1

\* the sentinel action
not_specified == "Ne ukazano"

\* the event times of raw events, in seconds, and a value that is no time
EventTimes == {0, 5, NaT}

BaseColumns == {"device_id", "session_number", "event_time", "screen", "functional", "action"}

\* a row of the table; a field whose column is absent holds 0
Row(rid, dev, sess, t, scr, fn, act, gsid, dur, click, dblc, dbld) ==
    [rid |-> rid, device_id |-> dev, session_number |-> sess, event_time |-> t,
     screen |-> scr, functional |-> fn, action |-> act,
     global_session_id |-> gsid, duration_seconds |-> dur, click_count |-> click,
     dbl_count |-> dblc, dbl_duration_seconds |-> dbld]

----------------------------------------------------------------------------
(* Sequence helpers *)

Range(s) == {s[i] : i \in 1..Len(s)}

Front(s) == SubSeq(s, 1, Len(s) - 1)

Last(s) == s[Len(s)]

\* str(n) of a small number
Digit(n) == <<"0", "1", "2", "3", "4", "5", "6", "7", "8", "9">>[n + 1]
IntStr(n) == IF n < 10 THEN Digit(n) ELSE Digit(n \div 10) \o Digit(n % 10)

----------------------------------------------------------------------------
(* sort_values(by=['global_session_id', 'Дата и время события']):          *)
(* ascending, stable for several keys, missing times last                  *)

TimeBefore(a, b) == a # NaT /\ (b = NaT \/ a < b)

\* the order by the event time alone
RowBeforeByTime(a, b) == TimeBefore(a.event_time, b.event_time)

RowBefore(a, b) ==
    \/ a.global_session_id < b.global_session_id
    \/ /\ a.global_session_id = b.global_session_id
       /\ TimeBefore(a.event_time, b.event_time)

\* r put into the sorted s behind every row that is not after it
InsertRow(s, r) ==
    LET later == {i \in 1..Len(s) : RowBefore(r, s[i])}
        k == IF later = {} THEN Len(s) + 1
             ELSE CHOOSE i \in later : \A j \in later : i <= j
    IN  SubSeq(s, 1, k - 1) \o <<r>> \o SubSeq(s, k, Len(s))

RECURSIVE SortValues(_)
SortValues(s) == IF s = <<>> THEN <<>> ELSE InsertRow(SortValues(Front(s)), Last(s))

\* no feature table returned
NoFeatures == [blocks_data |-> <<>>, rows |-> <<>>]

\* events.csv and users.csv were not loaded: the table comes from a saved file
\* None, and a file that does not exist
NoneTable == <<[none |-> TRUE]>>

IsNone(t) == t = NoneTable

\* main's local merged_df and self.merged_df are one table
SameTable == [rebound |-> FALSE, df |-> <<>>, columns |-> {}]

NoRawData ==
    /\ events_df = NoneTable
    /\ users_df = NoneTable
    /\ raw_files = [events |-> NoneTable, users |-> NoneTable]
    /\ local_merged_df = SameTable

\* what a call leaves in self.merged_df and what it raised
Assign(name, res, feat) ==
    /\ stage' = name
    /\ merged_df' = res.df
    /\ columns' = res.columns
    /\ error' = res.error
    /\ features' = feat
    /\ UNCHANGED <<events_df, users_df, raw_files>>

\* one call of a stage on the preprocessor
Call(name, res, feat) ==
    /\ Assign(name, res, feat)
    /\ UNCHANGED local_merged_df

Outcome(df, cols, err) == [df |-> df, columns |-> cols, error |-> err]

----------------------------------------------------------------------------
(* DataPreprocessor.add_global_session_id *)

SessionPair(r) == <<r.device_id, r.session_number>>

\* drop_duplicates(): the first occurrence of every value, in order
RECURSIVE DropDuplicates(_)
DropDuplicates(s) ==
    IF s = <<>> THEN <<>>
    ELSE LET rest == DropDuplicates(Front(s))
         IN  IF Last(s) \in Range(rest) THEN rest ELSE Append(rest, Last(s))

PairBefore(p, q) == p[1] < q[1] \/ (p[1] = q[1] /\ p[2] < q[2])

InsertPair(s, p) ==
    LET later == {i \in 1..Len(s) : PairBefore(p, s[i])}
        k == IF later = {} THEN Len(s) + 1
             ELSE CHOOSE i \in later : \A j \in later : i <= j
    IN  SubSeq(s, 1, k - 1) \o <<p>> \o SubSeq(s, k, Len(s))

\* sort_values([device id, session number])
RECURSIVE SortPairs(_)
SortPairs(s) == IF s = <<>> THEN <<>> ELSE InsertPair(SortPairs(Front(s)), Last(s))

\* unique_sessions without the sort: ids in first-seen order
unique_sessions_unsorted(df) ==
    DropDuplicates([i \in 1..Len(df) |-> SessionPair(df[i])])

\* the distinct (device id, session number) pairs, sorted; the pair at
\* position i gets global_session_id i (range(1, N + 1))
unique_sessions(df) ==
    SortPairs(DropDuplicates([i \in 1..Len(df) |-> SessionPair(df[i])]))

\* merge(unique_sessions, on=[device id, session number], how='left')
MergeSessionIds(df, us) ==
    [i \in 1..Len(df) |->
        [df[i] EXCEPT !.global_session_id =
            CHOOSE k \in 1..Len(us) : us[k] = SessionPair(df[i])]]

\* the columns a merge makes of a global_session_id column that both sides have
merge_suffix_columns == {"global_session_id_x", "global_session_id_y"}

add_global_session_id(df, cols) ==
    IF df = <<>> THEN Outcome(df, cols, "ValueError")
    ELSE IF ~({"device_id", "session_number"} \subseteq cols)
    THEN Outcome(df, cols, "KeyError")
    ELSE IF "global_session_id" \in cols /\ merge_suffix_columns \cap cols # {}
    \* the merge would make a second global_session_id_x or _y: it raises
    \* MergeError (a ValueError) and self.merged_df is not assigned
    THEN Outcome(df, cols, "MergeError")
    ELSE IF "global_session_id" \in cols
    \* the merge renames the two id columns to global_session_id_x and _y,
    \* which no stage reads, and the lookup of 'global_session_id' that
    \* follows fails
    THEN Outcome([i \in 1..Len(df) |-> [df[i] EXCEPT !.global_session_id = 0]],
                 (cols \ {"global_session_id"}) \cup merge_suffix_columns, "KeyError")
    ELSE LET merged == MergeSessionIds(df, unique_sessions(df))
         IN  IF "event_time" \notin cols
             THEN Outcome(merged, cols \cup {"global_session_id"}, "KeyError")
             ELSE Outcome(SortValues(merged), cols \cup {"global_session_id"}, "none")

AddGlobalSessionId ==
    Call("add_global_session_id", add_global_session_id(merged_df, columns), NoFeatures)

----------------------------------------------------------------------------
(* DataPreprocessor.calculate_event_duration *)

\* shift(-1) without the groupby: the next row of the table
NextInTable(df, i) == IF i < Len(df) THEN i + 1 ELSE 0

\* groupby('global_session_id').shift(-1): the next row of the same session
NextInSession(df, i) ==
    LET after == {j \in (i + 1)..Len(df) :
                    df[j].global_session_id = df[i].global_session_id}
    IN  IF after = {} THEN 0 ELSE CHOOSE j \in after : \A k \in after : j <= k

\* (next_time - time).dt.total_seconds().fillna(0).astype('int32')
\* the time since the previous event of the session (shift(1))
DurationSincePrevious(df, i) ==
    LET j == IF i > 1 /\ df[i - 1].global_session_id = df[i].global_session_id
             THEN i - 1 ELSE 0
    IN  IF j = 0 \/ df[i].event_time = NaT \/ df[j].event_time = NaT THEN 0
        ELSE df[i].event_time - df[j].event_time

DurationAt(df, i) ==
    LET j == NextInSession(df, i)
    IN  IF j = 0 \/ df[i].event_time = NaT \/ df[j].event_time = NaT THEN 0
        ELSE df[j].event_time - df[i].event_time

WithDurations(df) ==
    [i \in 1..Len(df) |-> [df[i] EXCEPT !.duration_seconds = DurationAt(df, i)]]

calculate_event_duration(df, cols) ==
    IF df = <<>> THEN Outcome(df, cols, "ValueError")
    ELSE IF "global_session_id" \notin cols THEN Outcome(df, cols, "ValueError")
    ELSE IF "event_time" \notin cols THEN Outcome(df, cols, "ValueError")
    ELSE Outcome(WithDurations(SortValues(df)), cols \cup {"duration_seconds"}, "none")

CalculateEventDuration ==
    Call("calculate_event_duration", calculate_event_duration(merged_df, columns), NoFeatures)

----------------------------------------------------------------------------
(* DataPreprocessor.remove_consecutive_duplicates_with_clicks *)

\* astype(str) of a column of strings
AsStr(v) == v

\* a comparison key that takes the event time in as well
comparison_key_with_time(r) ==
    AsStr(r.screen) \o "|" \o AsStr(r.functional) \o "|" \o AsStr(r.action)
        \o "|" \o IntStr(r.event_time)

\* comparison_key = key_parts[0] + '|' + key_parts[1] + '|' + key_parts[2]
comparison_key(r) ==
    AsStr(r.screen) \o "|" \o AsStr(r.functional) \o "|" \o AsStr(r.action)

\* groupby('global_session_id').shift(1): the previous row of the same session
PrevInSession(df, i) ==
    LET before == {j \in 1..(i - 1) :
                     df[j].global_session_id = df[i].global_session_id}
    IN  IF before = {} THEN 0 ELSE CHOOSE j \in before : \A k \in before : j >= k

\* is_duplicate = (comparison_key == prev_key).fillna(False)
is_duplicate(df, i) ==
    LET j == PrevInSession(df, i)
    IN  j # 0 /\ comparison_key(df[i]) = comparison_key(df[j])

\* new_group = ~is_duplicate | (global_session_id != global_session_id.shift(1))
new_group(df, i) ==
    \/ ~is_duplicate(df, i)
    \/ i = 1
    \/ df[i].global_session_id # df[i - 1].global_session_id

\* group_id = new_group.cumsum()
group_id(df, i) == Cardinality({j \in 1..i : new_group(df, j)})

GroupMembers(df, g) == {i \in 1..Len(df) : group_id(df, i) = g}

\* rank_in_group == 0
is_last_in_group(df, i) ==
    \A j \in GroupMembers(df, group_id(df, i)) : j <= i

RECURSIVE SumOver(_, _, _)
\* the sum of Val over the rows of df at the indices in S
SumOver(df, S, field) ==
    IF S = {} THEN 0
    ELSE LET i == CHOOSE x \in S : TRUE
         IN  df[i][field] + SumOver(df, S \ {i}, field)

is_meaningful_action(r) == r.action # not_specified

meaningful_actions_count(df, g) ==
    Cardinality({i \in GroupMembers(df, g) : is_meaningful_action(df[i])})

\* clip(lower=1)
ClipLower1(n) == IF n < 1 THEN 1 ELSE n

\* the columns the stage adds, reset to 0, and duration_seconds made if absent
WithClickColumns(df, cols) ==
    [i \in 1..Len(df) |->
        [df[i] EXCEPT !.click_count = 0,
                      !.dbl_duration_seconds = 0,
                      !.dbl_count = 0,
                      !.duration_seconds =
                          IF "duration_seconds" \in cols THEN @ ELSE 0]]

ClickColumns == {"click_count", "dbl_duration_seconds", "dbl_count", "duration_seconds"}

\* the last row of every group with its own duration, not the group's
FillLastInGroupOwnDuration(df, i) ==
    LET g == group_id(df, i)
        members == GroupMembers(df, g)
        removed == {j \in members : ~is_last_in_group(df, j)}
    IN  [df[i] EXCEPT
            !.click_count = ClipLower1(meaningful_actions_count(df, g)),
            !.dbl_duration_seconds = SumOver(df, removed, "duration_seconds"),
            !.dbl_count = Cardinality(members) - 1]

\* the last row of every group, carrying the group's sums
FillLastInGroup(df, i) ==
    LET g == group_id(df, i)
        members == GroupMembers(df, g)
        removed == {j \in members : ~is_last_in_group(df, j)}
    IN  [df[i] EXCEPT
            !.click_count = ClipLower1(meaningful_actions_count(df, g)),
            !.duration_seconds = SumOver(df, members, "duration_seconds"),
            !.dbl_duration_seconds = SumOver(df, removed, "duration_seconds"),
            !.dbl_count = Cardinality(members) - 1]

\* merged_df[is_last_in_group], the other rows removed
KeepLastInGroup(df) ==
    LET kept == {i \in 1..Len(df) : is_last_in_group(df, i)}
        \* the k-th kept index
        Nth(k) == CHOOSE i \in kept : Cardinality({j \in kept : j <= i}) = k
    IN  [k \in 1..Cardinality(kept) |-> FillLastInGroup(df, Nth(k))]

remove_consecutive_duplicates_with_clicks(df, cols) ==
    IF df = <<>> THEN Outcome(df, cols, "ValueError")
    ELSE IF "global_session_id" \notin cols THEN Outcome(df, cols, "ValueError")
    ELSE LET reset == WithClickColumns(df, cols)
             cols2 == cols \cup ClickColumns
         IN  IF ~({"screen", "functional", "action"} \subseteq cols)
             THEN Outcome(reset, cols2, "ValueError")
             ELSE IF "event_time" \notin cols
             THEN Outcome(reset, cols2, "KeyError")
             ELSE Outcome(KeepLastInGroup(SortValues(reset)), cols2, "none")

RemoveConsecutiveDuplicatesWithClicks ==
    Call("remove_consecutive_duplicates_with_clicks",
         remove_consecutive_duplicates_with_clicks(merged_df, columns), NoFeatures)

----------------------------------------------------------------------------
(* DataPreprocessor.collapse_intermediate_screens *)

\* screen_changed = (screen != prev_screen) | (session != session.shift(1))
screen_changed(df, i) ==
    LET j == PrevInSession(df, i)
    IN  \/ j = 0
        \/ df[i].screen # df[j].screen
        \/ i = 1
        \/ df[i].global_session_id # df[i - 1].global_session_id

\* screen_group_id = screen_changed.cumsum()
screen_group_id(df, i) == Cardinality({j \in 1..i : screen_changed(df, j)})

ScreenGroup(df, g) == {i \in 1..Len(df) : screen_group_id(df, i) = g}

not_specified_indices(df, g) ==
    {i \in ScreenGroup(df, g) : df[i].action = not_specified}

meaningful_indices(df, g) ==
    {i \in ScreenGroup(df, g) : df[i].action # not_specified}

\* the groups the loop collapses: two rows or more, of both kinds
Collapses(df, g) ==
    /\ Cardinality(ScreenGroup(df, g)) >= 2
    /\ not_specified_indices(df, g) # {}
    /\ meaningful_indices(df, g) # {}

\* meaningful_indices[-1]
last_meaningful_idx(df, g) ==
    CHOOSE i \in meaningful_indices(df, g) :
        \A j \in meaningful_indices(df, g) : i >= j

\* meaningful_indices[0]
first_meaningful_idx(df, g) ==
    CHOOSE i \in meaningful_indices(df, g) :
        \A j \in meaningful_indices(df, g) : i <= j

\* every sentinel row of a group of two rows or more
to_remove_any_sentinel(df, i) ==
    LET g == screen_group_id(df, i)
    IN  Cardinality(ScreenGroup(df, g)) >= 2 /\ i \in not_specified_indices(df, g)

to_remove(df, i) ==
    LET g == screen_group_id(df, i)
    IN  Collapses(df, g) /\ i \in not_specified_indices(df, g)

\* duration_seconds left as it was
UncollapsedDuration(df, i) == df[i].duration_seconds

\* duration_seconds after the loop over the screen groups
CollapsedDuration(df, i) ==
    LET g == screen_group_id(df, i)
    IN  IF Collapses(df, g) /\ i = first_meaningful_idx(df, g)
        THEN df[i].duration_seconds
               + SumOver(df, not_specified_indices(df, g), "duration_seconds")
        ELSE df[i].duration_seconds

\* merged_df[~to_remove]
DropRemoved(df) ==
    LET kept == {i \in 1..Len(df) : ~to_remove(df, i)}
        Nth(k) == CHOOSE i \in kept : Cardinality({j \in kept : j <= i}) = k
    IN  [k \in 1..Cardinality(kept) |->
            [df[Nth(k)] EXCEPT !.duration_seconds = CollapsedDuration(df, Nth(k))]]

\* the pass without the check for global_session_id: the sort by it fails
collapse_intermediate_screens_unchecked(df, cols) ==
    IF df = <<>> THEN Outcome(df, cols, "ValueError")
    ELSE LET made == [i \in 1..Len(df) |->
                        [df[i] EXCEPT !.duration_seconds =
                            IF "duration_seconds" \in cols THEN @ ELSE 0]]
             cols2 == cols \cup {"duration_seconds"}
         IN  IF ~({"global_session_id", "event_time"} \subseteq cols)
             THEN Outcome(made, cols2, "KeyError")
             ELSE IF ~({"screen", "action"} \subseteq cols)
             THEN Outcome(SortValues(made), cols2, "KeyError")
             ELSE Outcome(DropRemoved(SortValues(made)), cols2, "none")

\* the columns collapse_intermediate_screens writes into the table before
\* its loop and drops after it
screen_group_columns == {"prev_screen", "screen_changed", "screen_group_id", "to_remove"}

\* a screen group of two or more rows: the loop reads its 'Deistvie' column
HasScreenRun(df) ==
    \E i, j \in 1..Len(df) : i # j /\ screen_group_id(df, i) = screen_group_id(df, j)

collapse_intermediate_screens(df, cols) ==
    IF df = <<>> THEN Outcome(df, cols, "ValueError")
    ELSE IF "global_session_id" \notin cols THEN Outcome(df, cols, "ValueError")
    ELSE LET made == [i \in 1..Len(df) |->
                        [df[i] EXCEPT !.duration_seconds =
                            IF "duration_seconds" \in cols THEN @ ELSE 0]]
             cols2 == cols \cup {"duration_seconds"}
         IN  IF "event_time" \notin cols THEN Outcome(made, cols2, "KeyError")
             ELSE IF "screen" \notin cols
             THEN Outcome(SortValues(made), cols2, "KeyError")
             ELSE IF "action" \notin cols
             THEN Outcome(SortValues(made),
                          IF HasScreenRun(SortValues(made))
                          THEN cols2 \cup screen_group_columns ELSE cols2,
                          "KeyError")
             ELSE Outcome(DropRemoved(SortValues(made)), cols2, "none")

CollapseIntermediateScreens ==
    Call("collapse_intermediate_screens",
         collapse_intermediate_screens(merged_df, columns), NoFeatures)

----------------------------------------------------------------------------
(* DataPreprocessor.remove_trailing_empty_screens *)

target_screen == "Esche"
target_function == "Otkrytie ekrana"
target_action == not_specified

\* groupby('global_session_id', sort=False).tail(1): the last row of a session
is_last_in_session(df, i) == NextInSession(df, i) = 0

\* the column to_remove of remove_trailing_empty_screens
trailing_empty_screen(df, i) ==
    /\ is_last_in_session(df, i)
    /\ df[i].screen = target_screen
    /\ df[i].functional = target_function
    /\ df[i].action = target_action

\* merged_df[~merged_df['to_remove']].reset_index(drop=True)
DropTrailing(df) ==
    LET kept == {i \in 1..Len(df) : ~trailing_empty_screen(df, i)}
        Nth(k) == CHOOSE i \in kept : Cardinality({j \in kept : j <= i}) = k
    IN  [k \in 1..Cardinality(kept) |-> df[Nth(k)]]

remove_trailing_empty_screens(df, cols) ==
    IF df = <<>> THEN Outcome(df, cols, "ValueError")
    ELSE IF "global_session_id" \notin cols THEN Outcome(df, cols, "ValueError")
    ELSE IF ~({"screen", "functional", "action"} \subseteq cols)
    THEN Outcome(df, cols, "ValueError")
    \* sort_values fails before self.merged_df is assigned
    ELSE IF "event_time" \notin cols THEN Outcome(df, cols, "KeyError")
    ELSE Outcome(DropTrailing(SortValues(df)), cols, "none")

RemoveTrailingEmptyScreens ==
    Call("remove_trailing_empty_screens",
         remove_trailing_empty_screens(merged_df, columns), NoFeatures)

----------------------------------------------------------------------------
(* DataPreprocessor.fix_action_functional_typos *)

\* the list corrections: entries of three values (column, old, new) and of
\* six (column, functional, None, action column, old action, new action)
corrections ==
    << [col |-> "action", old_value |-> "vybor tega 1",
        new_value |-> "Vybor tega 1"],
       [col |-> "action", old_value |-> "Tap na uslugu partnyorov",
        new_value |-> "Tap na uslugu partnerov"],
       [col |-> "action", old_value |-> "'Tap na knopku 'Moi'",
        new_value |-> "Tap na knopku 'Moi'"],
       [col |-> "functional", old_value |-> "Vybor uslugi partnyorov",
        new_value |-> "Vybor uslugi partnerov"],
       [col |-> "functional",
        target_function |-> "Perehod k predostavleniyu dostupa cherez +",
        action_col_cond |-> "action", old_action |-> "Tap na knopku",
        new_action |-> "Tap na knopku '+'"],
       [col |-> "functional", target_function |-> "Otmena otzyva dostupa",
        action_col_cond |-> "action", old_action |-> "Tap na knopku 'Otmena'",
        new_action |-> "Tap na knopku 'Otmenit'"] >>

\* mask of one pass of the loop over corrections
correction_mask(c, r) ==
    IF "old_value" \in DOMAIN c
    THEN r[c.col] = c.old_value
    ELSE r[c.col] = c.target_function /\ r[c.action_col_cond] = c.old_action

\* the table, the loop's variable new_value and the exception raised after
\* the first k corrections: every pass with a row in its mask writes
\* new_value into the column col of these rows, and only a pass over an entry
\* of three values assigns new_value.  categorical says that the text
\* columns are categorical, as load_merged_data leaves them, and that their
\* categories are the values they hold: writing any other value raises
RECURSIVE CorrectedUpTo(_, _, _)
CorrectedUpTo(df, k, categorical) ==
    IF k = 0 THEN [df |-> df, new_value |-> "", error |-> "none"]
    ELSE LET before == CorrectedUpTo(df, k - 1, categorical)
             c == corrections[k]
             value == IF "old_value" \in DOMAIN c THEN c.new_value
                      ELSE before.new_value
             mask == {i \in 1..Len(df) : correction_mask(c, before.df[i])}
         IN  IF before.error # "none" THEN before
             ELSE IF mask = {}
             THEN [before EXCEPT !.new_value = value]
             ELSE IF categorical /\ \A i \in 1..Len(df) : before.df[i][c.col] # value
             THEN [before EXCEPT !.new_value = value, !.error = "TypeError"]
             ELSE [df |-> [i \in 1..Len(df) |->
                             IF i \in mask
                             THEN [before.df[i] EXCEPT ![c.col] = value]
                             ELSE before.df[i]],
                   new_value |-> value,
                   error |-> "none"]

fix_action_functional_typos(df, cols, categorical) ==
    IF df = <<>> THEN Outcome(df, cols, "ValueError")
    ELSE IF ~({"action", "functional"} \subseteq cols)
    THEN Outcome(df, cols, "ValueError")
    ELSE LET done == CorrectedUpTo(df, Len(corrections), categorical)
         IN  Outcome(done.df, cols, done.error)

FixActionFunctionalTypos ==
    \E categorical \in BOOLEAN :
        Call("fix_action_functional_typos",
             fix_action_functional_typos(merged_df, columns, categorical),
             NoFeatures)

----------------------------------------------------------------------------
(* FunnelFeaturesExtractor: the taxonomy lookup *)

\* prefixes_map of _generate_prefixes (block names transliterated)
prefixes_map ==
    [n \in {"Sozdanie zayavki", "Prosmotr i upravlenie zayavkami", "Profil",
            "Navigaciya", "Uvedomleniya", "Oprosy i sobraniya sobstvennikov",
            "Bally i pooschreniya", "Moy dom", "Uslugi partnerov",
            "Upravlenie transportom", "Prosmotr obyavleniy", "Umnye resheniya",
            "Tehpodderzhka", "Gostevoy dostup", "Gorodskie servisy",
            "Sozdanie adresa", "Sozdanie obyavleniya"} |->
        CASE n = "Sozdanie zayavki" -> "request"
          [] n = "Prosmotr i upravlenie zayavkami" -> "req_manage"
          [] n = "Profil" -> "profile"
          [] n = "Navigaciya" -> "nav"
          [] n = "Uvedomleniya" -> "notif"
          [] n = "Oprosy i sobraniya sobstvennikov" -> "poll_oss"
          [] n = "Bally i pooschreniya" -> "rewards"
          [] n = "Moy dom" -> "my_home"
          [] n = "Uslugi partnerov" -> "partners"
          [] n = "Upravlenie transportom" -> "transport"
          [] n = "Prosmotr obyavleniy" -> "ann_view"
          [] n = "Umnye resheniya" -> "smart"
          [] n = "Tehpodderzhka" -> "support"
          [] n = "Gostevoy dostup" -> "guest"
          [] n = "Gorodskie servisy" -> "city_serv"
          [] n = "Sozdanie adresa" -> "address"
          [] n = "Sozdanie obyavleniya" -> "ann_create"]

\* d with d[k] = v (a dict assignment)
DictSet(d, k, v) == [x \in DOMAIN d \cup {k} |-> IF x = k THEN v ELSE d[x]]

EmptyDict == [x \in {} |-> 0]

\* _generate_prefixes: {block name: prefix}
RECURSIVE generate_prefixes(_)
generate_prefixes(blocks) ==
    IF blocks = <<>> THEN EmptyDict
    ELSE LET result == generate_prefixes(Front(blocks))
             block_name == Last(blocks).name
         IN  IF block_name \in DOMAIN prefixes_map
             THEN DictSet(result, block_name, prefixes_map[block_name])
             ELSE DictSet(result, block_name,
                          "block_" \o IntStr(Cardinality(DOMAIN result)))

\* group.get(action_type, [])
ActionsOf(group, action_type) ==
    IF action_type \in DOMAIN group THEN group[action_type] ELSE <<>>

\* action_obj.get('step', 0)
StepOf(action_obj) == IF "step" \in DOMAIN action_obj THEN action_obj.step ELSE 0

\* the action types whose actions _build_action_lookup puts into action_to_block
BlockActionTypes ==
    <<"regular_actions", "cancel_actions", "exit_actions", "success_actions">>

\* the (key, value) assignments one action list makes, in order
ListEntries(block_name, group, action_type) ==
    LET objs == ActionsOf(group, action_type)
    IN  [i \in 1..Len(objs) |->
            <<  <<group.screen, group.functional, objs[i].action>>,
                <<block_name, StepOf(objs[i])>>  >>]

RECURSIVE TypesEntries(_, _, _)
TypesEntries(block_name, group, types) ==
    IF types = <<>> THEN <<>>
    ELSE ListEntries(block_name, group, Head(types))
             \o TypesEntries(block_name, group, Tail(types))

RECURSIVE GroupsEntries(_, _, _)
GroupsEntries(block_name, groups, types) ==
    IF groups = <<>> THEN <<>>
    ELSE TypesEntries(block_name, Head(groups), types)
             \o GroupsEntries(block_name, Tail(groups), types)

RECURSIVE BlocksEntries(_, _)
BlocksEntries(blocks, types) ==
    IF blocks = <<>> THEN <<>>
    ELSE GroupsEntries(Head(blocks).name, Head(blocks).groups, types)
             \o BlocksEntries(Tail(blocks), types)

\* the dict a sequence of assignments leaves: the last value of every key
DictOf(entries) ==
    [k \in {entries[i][1] : i \in 1..Len(entries)} |->
        LET at == {i \in 1..Len(entries) : entries[i][1] = k}
        IN  entries[CHOOSE i \in at : \A j \in at : j <= i][2]]

\* the three dicts of _build_action_lookup
action_to_block(blocks) == DictOf(BlocksEntries(blocks, BlockActionTypes))

success_actions(blocks) == DictOf(BlocksEntries(blocks, <<"success_actions">>))

review_actions(blocks) == DictOf(BlocksEntries(blocks, <<"success_review">>))

\* _build_action_lookup: what transform builds once and then reads per row
build_action_lookup(blocks) ==
    [action_to_block |-> action_to_block(blocks),
     success_actions |-> success_actions(blocks),
     review_actions |-> review_actions(blocks)]

ActionKey(r) == <<r.screen, r.functional, r.action>>

\* action_to_block.get(key, (None, 0)): "" stands for None
NoBlock == ""

\* a lookup that puts an event it does not know into the block 'Navigaciya'
block_name_of_or_default(lookup, r) ==
    IF ActionKey(r) \in DOMAIN lookup.action_to_block
    THEN lookup.action_to_block[ActionKey(r)][1] ELSE "Navigaciya"

\* df['_block_name'] of a row
block_name_of(lookup, r) ==
    IF ActionKey(r) \in DOMAIN lookup.action_to_block
    THEN lookup.action_to_block[ActionKey(r)][1] ELSE NoBlock

\* df['_step'] of a row
step_of(lookup, r) ==
    IF ActionKey(r) \in DOMAIN lookup.action_to_block
    THEN lookup.action_to_block[ActionKey(r)][2] ELSE 0

\* df['_is_success'] of a row
is_success(lookup, r) == ActionKey(r) \in DOMAIN lookup.success_actions

\* df['_is_review'] of a row
is_review(lookup, r) == ActionKey(r) \in DOMAIN lookup.review_actions

----------------------------------------------------------------------------
(* FunnelFeaturesExtractor.transform *)

Metrics == {"count", "max_step", "success_count", "review_count",
            "dur_sec", "click_count", "dbl_dur_sec", "dbl_count"}

required_cols == {"global_session_id", "screen", "functional", "action",
                  "event_time", "duration_seconds", "click_count",
                  "dbl_duration_seconds", "dbl_count"}

\* the columns transform writes into the table it is given
mapping_columns == {"_block_name", "_step", "_is_success", "_is_review"}

MaxOf(S) == CHOOSE x \in S : \A y \in S : y <= x

\* the rows of session g mapped to any block
MappedRows(df, lookup, g, b) ==
    {i \in 1..Len(df) : df[i].global_session_id = g /\ block_name_of(lookup, df[i]) # NoBlock}

\* the rows of session g mapped to block b (one group of the groupby)
BlockRows(df, lookup, g, b) ==
    {i \in 1..Len(df) : df[i].global_session_id = g /\ block_name_of(lookup, df[i]) = b}

\* the aggregate of one metric over the rows S of one (session, block) group
GroupMetric(df, lookup, S, metric) ==
    CASE metric = "count" -> Cardinality(S)
      [] metric = "max_step" -> MaxOf({step_of(lookup, df[i]) : i \in S})
      [] metric = "success_count" -> Cardinality({i \in S : is_success(lookup, df[i])})
      [] metric = "review_count" -> Cardinality({i \in S : is_review(lookup, df[i])})
      [] metric = "dur_sec" -> SumOver(df, S, "duration_seconds")
      [] metric = "click_count" -> SumOver(df, S, "click_count")
      [] metric = "dbl_dur_sec" -> SumOver(df, S, "dbl_duration_seconds")
      [] metric = "dbl_count" -> SumOver(df, S, "dbl_count")

\* df_with_blocks.groupby(['global_session_id', '_block_name']): its groups
SessionBlockGroups(df, lookup) ==
    {<<df[i].global_session_id, block_name_of(lookup, df[i])>> :
        i \in {j \in 1..Len(df) : block_name_of(lookup, df[j]) # NoBlock}}

\* the pivots, concatenated: index the sessions with a mapped event, columns
\* (prefix, metric) for the blocks met, a cell where the group exists.
\* A column f'{prefix}_{metric}' is the pair <<prefix, metric>>.
PivotFeatures(df, lookup, prefixes) ==
    LET groups == SessionBlockGroups(df, lookup)
    IN  [index |-> {gb[1] : gb \in groups},
         columns |-> {<<prefixes[gb[2]], m>> : gb \in groups, m \in Metrics},
         cell |-> [gc \in {<<gb[1], <<prefixes[gb[2]], m>>>> : gb \in groups, m \in Metrics} |->
                     LET b == CHOOSE b \in {gb[2] : gb \in groups} :
                                  /\ prefixes[b] = gc[2][1]
                                  /\ <<gc[1], b>> \in groups
                     IN  GroupMetric(df, lookup, BlockRows(df, lookup, gc[1], b), gc[2][2])]]

\* fillna(-1) for a max_step column, fillna(0) for the others
FillValue(col) == IF col[2] = "max_step" THEN -1 ELSE 0

\* the fill of every column the table has
FillColumns(fdf) ==
    [fdf EXCEPT !.cell =
        [gc \in fdf.index \X fdf.columns |->
            IF gc \in DOMAIN fdf.cell THEN fdf.cell[gc] ELSE FillValue(gc[2])]]

SessionIds(df) == {df[i].global_session_id : i \in 1..Len(df)}

SessionRows(df, g) == {i \in 1..Len(df) : df[i].global_session_id = g}

\* session_agg.join(features_df, how='left'): the sessions of df, the cells
\* of features_df where it has the session
JoinFeatures(df, fdf) ==
    [index |-> SessionIds(df),
     columns |-> fdf.columns,
     cell |-> [gc \in {x \in DOMAIN fdf.cell : x[1] \in SessionIds(df)} |-> fdf.cell[gc]]]

\* the loop without its fillna: only a column that is absent is made
FillAbsentBlockColumns(rdf, prefixes) ==
    LET cols == {<<prefixes[b], m>> : b \in DOMAIN prefixes, m \in Metrics}
    IN  [rdf EXCEPT
            !.columns = @ \cup cols,
            !.cell = [gc \in DOMAIN rdf.cell \cup (rdf.index \X (cols \ rdf.columns)) |->
                        IF gc \in DOMAIN rdf.cell THEN rdf.cell[gc]
                        ELSE FillValue(gc[2])]]

\* the loop over block_prefixes.values(): a column that is absent is made
\* with 0 (-1 for max_step), one that is there is filled
FillBlockColumns(rdf, prefixes) ==
    LET cols == {<<prefixes[b], m>> : b \in DOMAIN prefixes, m \in Metrics}
    IN  [rdf EXCEPT
            !.columns = @ \cup cols,
            !.cell = [gc \in DOMAIN rdf.cell \cup (rdf.index \X cols) |->
                        IF gc \in DOMAIN rdf.cell THEN rdf.cell[gc]
                        ELSE FillValue(gc[2])]]

\* the feature row of session g: the first row's context, the summed
\* duration, the block cells that hold a value
FeatureRow(df, rdf, g) ==
    LET rows == SessionRows(df, g)
        first == df[CHOOSE i \in rows : \A j \in rows : i <= j]
    IN  [global_session_id |-> g,
         device_id |-> first.device_id,
         session_number |-> first.session_number,
         event_time |-> first.event_time,
         sess_dur_sec |-> SumOver(df, rows, "duration_seconds"),
         block |-> [c \in {c \in rdf.columns : <<g, c>> \in DOMAIN rdf.cell} |->
                      rdf.cell[<<g, c>>]]]

\* the table transform returns: a row per session of df, by session id
FeatureTable(df, blocks) ==
    LET sorted == SortValues(df)
        lookup == build_action_lookup(blocks)
        block_prefixes == generate_prefixes(blocks)
        rdf == FillBlockColumns(
                   JoinFeatures(sorted,
                       FillColumns(PivotFeatures(df, lookup, block_prefixes))),
                   block_prefixes)
        ids == SessionIds(sorted)
        Nth(k) == CHOOSE g \in ids : Cardinality({h \in ids : h <= g}) = k
    IN  [k \in 1..Cardinality(ids) |-> FeatureRow(sorted, rdf, Nth(k))]

----------------------------------------------------------------------------
(* The tables and taxonomy documents the pipeline is run on *)

\* the (screen, functional, action) values of loaded events
EventTriples ==
    {<<"Esche", "Otkrytie ekrana", not_specified>>,
     <<"Esche", "Otkrytie ekrana|Tap", "Tap">>,
     <<"Esche|Otkrytie ekrana", "Tap", "Tap">>}

\* two taxonomy documents (categorized_combinations_with_funnels.json)
TaxonomyA ==
    << [name |-> "Navigaciya", combinations_count |-> 1, total_count |-> 1,
        groups |-> << [screen |-> "Esche", functional |-> "Otkrytie ekrana",
                       regular_actions |-> << [action |-> not_specified, step |-> 1] >>,
                       success_actions |-> << [action |-> "Tap", step |-> 2] >>],
                      [screen |-> "Esche", functional |-> "Otkrytie ekrana|Tap",
                       success_actions |-> << [action |-> "Tap", step |-> 2] >>] >>],
       [name |-> "Profil", combinations_count |-> 1, total_count |-> 1,
        groups |-> << [screen |-> "Esche|Otkrytie ekrana", functional |-> "Tap",
                       success_review |-> << [action |-> "Tap", step |-> 1] >>] >>] >>

TaxonomyB ==
    << [name |-> "Eksperiment", combinations_count |-> 1, total_count |-> 1,
        groups |-> << [screen |-> "Esche", functional |-> "Otkrytie ekrana|Tap",
                       exit_actions |-> << [action |-> "Tap"] >>] >>],
       [name |-> "Navigaciya", combinations_count |-> 1, total_count |-> 1,
        groups |-> << [screen |-> "Esche", functional |-> "Otkrytie ekrana",
                       regular_actions |-> << [action |-> not_specified, step |-> 1] >>,
                       cancel_actions |-> << [action |-> "Tap", step |-> 3] >>,
                       success_review |-> << [action |-> "Tap"] >>] >>] >>

TaxonomyDocuments == {TaxonomyA, TaxonomyB}

\* raw events as create_features leaves them: no session id yet
RawSessions == {<<1, 2>>, <<2, 1>>}

RawTables ==
    UNION {[1..n -> RawSessions \X EventTimes] : n \in 1..MaxRows}

RawTable(c) ==
    [i \in 1..Len(c) |->
        Row(i, c[i][1][1], c[i][1][2], c[i][2], "Esche", "Otkrytie ekrana", "Tap",
            0, 0, 0, 0, 0)]

RECURSIVE Pow2(_)
Pow2(n) == IF n = 0 THEN 1 ELSE 2 * Pow2(n - 1)

\* tables as load_merged_data reads them from a saved file: session ids and
\* durations are there.  The first k rows are of session 1 and the others of
\* session 2, at the times 1, 2, ...; row i has the duration 2^(i-1); the
\* file holds the rows in this order or in the reverse order.
SavedTables ==
    UNION {(0..n) \X [1..n -> EventTriples] : n \in 1..MaxRows}

SavedTable(c, reversed) ==
    LET k == c[1]
        triple == c[2]
        n == Len(triple)
        row(i) == Row(i, 1, IF i <= k THEN 1 ELSE 2, i,
                      triple[i][1], triple[i][2], triple[i][3],
                      IF i <= k THEN 1 ELSE 2, Pow2(i - 1), 0, 0, 0)
    IN  [i \in 1..n |-> IF reversed THEN row(n + 1 - i) ELSE row(i)]

\* scenario A: sentinel events of 5 s and 3 s, then a tap of 10 s
ScenarioA ==
    << Row(1, 1, 1, 0, "Esche", "Otkrytie ekrana", not_specified, 1, 5, 0, 0, 0),
       Row(2, 1, 1, 5, "Esche", "Otkrytie ekrana", not_specified, 1, 3, 0, 0, 0),
       Row(3, 1, 1, 8, "Esche", "Otkrytie ekrana", "Tap", 1, 10, 0, 0, 0) >>

\* scenario C: the raw events of one session at 10:00:00, 10:00:05 and
\* 10:00:12 (seconds from 10:00:00), the latest loaded first
ScenarioC ==
    << Row(1, 1, 2, 12, "Esche", "Otkrytie ekrana", "Tap", 0, 0, 0, 0, 0),
       Row(2, 1, 2, 0, "Esche", "Otkrytie ekrana", "Tap", 0, 0, 0, 0, 0),
       Row(3, 1, 2, 5, "Esche", "Otkrytie ekrana", "Tap", 0, 0, 0, 0, 0) >>

SavedColumns == BaseColumns \cup {"global_session_id", "duration_seconds"}

Init ==
    /\ \/ /\ \E c \in RawTables : merged_df = RawTable(c)
          /\ columns = BaseColumns
       \/ /\ \E c \in SavedTables, reversed \in BOOLEAN :
                merged_df = SavedTable(c, reversed)
          /\ columns = SavedColumns
       \/ /\ merged_df = ScenarioA
          /\ columns = SavedColumns
       \/ /\ merged_df = ScenarioC
          /\ columns = BaseColumns
    /\ stage = "load"
    /\ error = "none"
    /\ features = NoFeatures
    /\ NoRawData

\* what extractor.transform returns for a table, or the exception it raises
transform(df, cols, doc) ==
    IF "global_session_id" \notin cols THEN [rows |-> <<>>, error |-> "KeyError"]
    ELSE IF ~(required_cols \subseteq cols) THEN [rows |-> <<>>, error |-> "ValueError"]
    ELSE IF df = <<>> THEN [rows |-> <<>>, error |-> "ZeroDivisionError"]
    ELSE [rows |-> FeatureTable(df, doc), error |-> "none"]

\* extractor = FunnelFeaturesExtractor(json_path); extractor.transform(merged_df)
Transform ==
    \E doc \in TaxonomyDocuments :
        IF "global_session_id" \notin columns
        THEN Call("transform", Outcome(merged_df, columns, "KeyError"), NoFeatures)
        ELSE IF ~(required_cols \subseteq columns)
        THEN Call("transform", Outcome(merged_df, columns, "ValueError"), NoFeatures)
        ELSE IF merged_df = <<>>
        THEN Call("transform",
                  Outcome(merged_df, columns \cup mapping_columns, "ZeroDivisionError"),
                  NoFeatures)
        ELSE Call("transform",
                  Outcome(merged_df, columns \cup mapping_columns, "none"),
                  [blocks_data |-> doc, rows |-> FeatureTable(merged_df, doc)])

\* the calls a driver makes on the preprocessor and the extractor, in any
\* order: the four stage methods (main.py lists them at 82-85, commented out
\* in the shipped driver) and extractor.transform (main.py 96)
Next ==
    \/ AddGlobalSessionId
    \/ CalculateEventDuration
    \/ RemoveConsecutiveDuplicatesWithClicks
    \/ CollapseIntermediateScreens
    \/ Transform

Spec == Init /\ [][Next]_vars

----------------------------------------------------------------------------
(* The stages called in any order on any table that can be loaded *)

\* a table without the column col: its cells are blank
DropColumn(df, col) ==
    [i \in 1..Len(df) |->
        [df[i] EXCEPT ![col] =
            IF col \in {"screen", "functional", "action"} THEN "" ELSE 0]]

\* the example of the docstring of remove_consecutive_duplicates_with_clicks:
\* events at 10:00, 10:03, 10:05 and 10:10 (seconds from 10:00) on one
\* screen, with the durations 3, 2, 5, 5
ScenarioDocstring ==
    << Row(1, 1, 1, 0, "Esche", "Otkrytie ekrana", not_specified, 1, 3, 0, 0, 0),
       Row(2, 1, 1, 180, "Esche", "Otkrytie ekrana", not_specified, 1, 2, 0, 0, 0),
       Row(3, 1, 1, 300, "Esche", "Otkrytie ekrana", "Tap na knopku", 1, 5, 0, 0, 0),
       Row(4, 1, 1, 600, "Esche", "Otkrytie ekrana", "Tap na knopku", 1, 5, 0, 0, 0) >>

\* the (functional, action) values of events that the corrections
\* concern: two that the conditional corrections match, a misspelt pair, and
\* a pair with nothing to correct
TypoPairs ==
    {<<"Perehod k predostavleniyu dostupa cherez +", "Tap na knopku">>,
     <<"Otmena otzyva dostupa", "Tap na knopku 'Otmena'">>,
     <<"Vybor uslugi partnyorov", "Tap na uslugu partnyorov">>,
     <<"Vybor uslugi partnerov", "Tap na knopku '+'">>}

\* saved tables of one session with such events, at the times 1, 2, ...
TypoTables == UNION {[1..n -> TypoPairs] : n \in 1..MaxRows}

TypoTable(c) ==
    [i \in 1..Len(c) |->
        Row(i, 1, 1, i, "Profil", c[i][1], c[i][2], 1, 1, 0, 0, 0)]

\* load_merged_data converts the columns that the file has and asks for
\* none of them; a file may also hold no row, and before a load merged_df
\* is None (here the table with no row and no column)
StagesInit ==
    /\ \/ /\ \E c \in RawTables : merged_df = RawTable(c)
          /\ columns = BaseColumns
       \/ /\ \E c \in SavedTables, reversed \in BOOLEAN :
                merged_df = SavedTable(c, reversed)
          /\ columns = SavedColumns
       \/ \E col \in SavedColumns :
             /\ merged_df = DropColumn(ScenarioA, col)
             /\ columns = SavedColumns \ {col}
       \/ /\ merged_df = ScenarioDocstring
          /\ columns = SavedColumns
       \/ /\ \E c \in TypoTables : merged_df = TypoTable(c)
          /\ columns = SavedColumns
       \/ /\ merged_df = <<>>
          /\ columns \in {SavedColumns, {}}
    /\ stage = "load"
    /\ error = "none"
    /\ features = NoFeatures
    /\ NoRawData

StagesNext ==
    \/ AddGlobalSessionId
    \/ CalculateEventDuration
    \/ RemoveConsecutiveDuplicatesWithClicks
    \/ CollapseIntermediateScreens
    \/ RemoveTrailingEmptyScreens
    \/ FixActionFunctionalTypos

StagesSpec == StagesInit /\ [][StagesNext]_vars

----------------------------------------------------------------------------
(* What a call of each stage on the current table would leave *)

AddOut == add_global_session_id(merged_df, columns)
DurOut == calculate_event_duration(merged_df, columns)
DedupOut == remove_consecutive_duplicates_with_clicks(merged_df, columns)
ScreenOut == collapse_intermediate_screens(merged_df, columns)

Rids(df) == {df[i].rid : i \in 1..Len(df)}

\* the row of df that has the pass-through columns rid
RowOf(df, rid) == df[CHOOSE i \in 1..Len(df) : df[i].rid = rid]

MinOf(S) == CHOOSE x \in S : \A y \in S : x <= y

----------------------------------------------------------------------------
(* C1 *)

\* C1: after add_global_session_id two events carry the same
\* global_session_id iff they share (device id, session number); the ids are
\* 1..N, ascending in (device id, session number) over the N distinct pairs;
\* the table has the rows it had, each unchanged but for the id.
C1_SessionIdBijection ==
    AddOut.error = "none" =>
        LET out == AddOut.df
            pairs == {SessionPair(merged_df[i]) : i \in 1..Len(merged_df)}
        IN  /\ Len(out) = Len(merged_df)
            /\ Rids(out) = Rids(merged_df)
            /\ \A i \in 1..Len(out) :
                   [out[i] EXCEPT !.global_session_id = 0]
                       = [RowOf(merged_df, out[i].rid) EXCEPT !.global_session_id = 0]
            /\ \A i, j \in 1..Len(out) :
                   (out[i].global_session_id = out[j].global_session_id)
                       <=> (SessionPair(out[i]) = SessionPair(out[j]))
            /\ {out[i].global_session_id : i \in 1..Len(out)} = 1..Cardinality(pairs)
            /\ \A i, j \in 1..Len(out) :
                   (\/ out[i].device_id < out[j].device_id
                    \/ /\ out[i].device_id = out[j].device_id
                       /\ out[i].session_number < out[j].session_number)
                       => out[i].global_session_id < out[j].global_session_id

\* add_global_session_id has run on events of two sessions, one of them with
\* two events, whose first-seen order is not the sorted order
C1_Witness ==
    /\ stage = "add_global_session_id"
    /\ error = "none"
    /\ \E i, j \in 1..Len(merged_df) :
           /\ merged_df[i].rid < merged_df[j].rid
           /\ merged_df[i].global_session_id = 2
           /\ merged_df[j].global_session_id = 1
    /\ \E i, j \in 1..Len(merged_df) :
           /\ i # j
           /\ merged_df[i].global_session_id = merged_df[j].global_session_id

----------------------------------------------------------------------------
(* C2 *)

SessionTimes(df, g) == {df[i].event_time : i \in SessionRows(df, g)}

\* the events of session g are at distinct, parsed times
StrictlyIncreasingTimes(df, g) ==
    /\ NaT \notin SessionTimes(df, g)
    /\ Cardinality(SessionTimes(df, g)) = Cardinality(SessionRows(df, g))

\* C2: after calculate_event_duration, for every session whose events are at
\* strictly increasing times t1 < ... < tk, the durations of the session's
\* events sum to tk - t1.
C2_DurationConservation ==
    DurOut.error = "none" =>
        \A g \in SessionIds(merged_df) :
            StrictlyIncreasingTimes(merged_df, g) =>
                SumOver(DurOut.df, SessionRows(DurOut.df, g), "duration_seconds")
                    = MaxOf(SessionTimes(merged_df, g)) - MinOf(SessionTimes(merged_df, g))

\* calculate_event_duration has run on a session with events at 10:00:00,
\* 10:00:05 and 10:00:12, which got the durations 5, 7 and 0
C2_Witness ==
    /\ stage = "calculate_event_duration"
    /\ error = "none"
    /\ Len(merged_df) = 3
    /\ \A i \in 1..3 : merged_df[i].global_session_id = 1
    /\ <<merged_df[1].event_time, merged_df[2].event_time, merged_df[3].event_time>>
           = <<0, 5, 12>>
    /\ <<merged_df[1].duration_seconds, merged_df[2].duration_seconds,
         merged_df[3].duration_seconds>> = <<5, 7, 0>>

----------------------------------------------------------------------------
(* C3, C4, C5 *)

\* the duration of a row as the collapse passes read it: 0 when the table
\* has no duration_seconds column yet
InputDuration(r) == IF "duration_seconds" \in columns THEN r.duration_seconds ELSE 0

RECURSIVE SumDurations(_, _, _)
\* d_i + ... + d_j over the rows i..j of df
SumDurations(df, i, j) ==
    IF i > j THEN 0 ELSE InputDuration(df[i]) + SumDurations(df, i + 1, j)

\* rows i and i+1 of df are of one session and have the same
\* (screen, functional, action)
SameTripleAsNext(df, i) ==
    /\ i < Len(df)
    /\ df[i].global_session_id = df[i + 1].global_session_id
    /\ df[i].screen = df[i + 1].screen
    /\ df[i].functional = df[i + 1].functional
    /\ df[i].action = df[i + 1].action

\* i..j is a maximal run of consecutive same-session events with identical
\* (screen, functional, action)
IsTripleRun(df, i, j) ==
    /\ 1 <= i /\ i <= j /\ j <= Len(df)
    /\ i = 1 \/ ~SameTripleAsNext(df, i - 1)
    /\ ~SameTripleAsNext(df, j)
    /\ \A k \in i..(j - 1) : SameTripleAsNext(df, k)

\* C3: after remove_consecutive_duplicates_with_clicks every maximal run of
\* n consecutive same-session events with identical (screen, functional,
\* action) and durations d1..dn is replaced by exactly one row, the run's
\* last event, with duration_seconds = d1+...+dn, dbl_count = n-1 and
\* dbl_duration_seconds = d1+...+d(n-1); a run of one row keeps its
\* duration and gets dbl_count = 0, dbl_duration_seconds = 0.
C3_RunCollapse ==
    DedupOut.error = "none" =>
        LET in == SortValues(merged_df)
            out == DedupOut.df
        IN  \A i, j \in 1..Len(in) :
                IsTripleRun(in, i, j) =>
                    LET kept == {k \in 1..Len(out) :
                                    out[k].rid \in {in[m].rid : m \in i..j}}
                    IN  /\ Cardinality(kept) = 1
                        /\ \A k \in kept :
                               /\ out[k].rid = in[j].rid
                               /\ out[k].duration_seconds = SumDurations(in, i, j)
                               /\ out[k].dbl_count = j - i
                               /\ out[k].dbl_duration_seconds = SumDurations(in, i, j - 1)

\* C4: running remove_consecutive_duplicates_with_clicks twice in succession
\* yields the table that running it once yields, in every row and column.
C4_CollapseIdempotent ==
    DedupOut.error = "none" =>
        remove_consecutive_duplicates_with_clicks(DedupOut.df, DedupOut.columns)
            = DedupOut

\* the (global_session_id, timestamp) order: a is not after b
NotAfter(a, b) ==
    \/ a.global_session_id < b.global_session_id
    \/ /\ a.global_session_id = b.global_session_id
       /\ \/ b.event_time = NaT
          \/ a.event_time # NaT /\ a.event_time <= b.event_time

\* C5: after remove_consecutive_duplicates_with_clicks the rows are in
\* (global_session_id, timestamp) order and no two adjacent rows of one
\* session share the same (screen, functional, action).
C5_NoAdjacentDuplicates ==
    DedupOut.error = "none" =>
        LET out == DedupOut.df
        IN  /\ \A i \in 1..(Len(out) - 1) : NotAfter(out[i], out[i + 1])
            /\ \A i \in 1..(Len(out) - 1) : ~SameTripleAsNext(out, i)

\* remove_consecutive_duplicates_with_clicks has run and has merged a run of
\* two events; two rows of one session with different keys are adjacent
C5_Witness ==
    /\ stage = "remove_consecutive_duplicates_with_clicks"
    /\ error = "none"
    /\ \E i \in 1..(Len(merged_df) - 1) :
           /\ merged_df[i].global_session_id = merged_df[i + 1].global_session_id
           /\ merged_df[i].dbl_count = 1
           /\ merged_df[i].action # merged_df[i + 1].action

----------------------------------------------------------------------------
(* C6, C7 *)

\* rows i and i+1 of df are of one session and on the same screen
SameScreenAsNext(df, i) ==
    /\ i < Len(df)
    /\ df[i].global_session_id = df[i + 1].global_session_id
    /\ df[i].screen = df[i + 1].screen

\* i..j is a maximal run of consecutive same-session events on one screen
IsScreenRun(df, i, j) ==
    /\ 1 <= i /\ i <= j /\ j <= Len(df)
    /\ i = 1 \/ ~SameScreenAsNext(df, i - 1)
    /\ ~SameScreenAsNext(df, j)
    /\ \A k \in i..(j - 1) : SameScreenAsNext(df, k)

\* the run i..j has an event whose action is not the sentinel
IsMixedRun(df, i, j) == \E k \in i..j : df[k].action # not_specified

RECURSIVE SumSentinelDurations(_, _, _)
\* the summed duration of the sentinel-action rows among i..j
SumSentinelDurations(df, i, j) ==
    IF i > j THEN 0
    ELSE (IF df[i].action = not_specified THEN InputDuration(df[i]) ELSE 0)
            + SumSentinelDurations(df, i + 1, j)

\* C6: collapse_intermediate_screens deletes, in every maximal same-session
\* same-screen run that has a non-sentinel event, every sentinel-action
\* member, and adds the summed duration of the deleted members to the first
\* non-sentinel member of the run; no other row's duration changes.
C6_ScreenCollapse ==
    ScreenOut.error = "none" =>
        LET in == SortValues(merged_df)
            out == ScreenOut.df
        IN  /\ \A i, j \in 1..Len(in) :
                IsScreenRun(in, i, j) /\ IsMixedRun(in, i, j) =>
                    LET first == MinOf({k \in i..j : in[k].action # not_specified})
                    IN  \A k \in i..j :
                            IF in[k].action = not_specified
                            THEN in[k].rid \notin Rids(out)
                            ELSE /\ in[k].rid \in Rids(out)
                                 /\ RowOf(out, in[k].rid).duration_seconds =
                                       InputDuration(in[k])
                                         + (IF k = first
                                            THEN SumSentinelDurations(in, i, j)
                                            ELSE 0)
            /\ \A i, j \in 1..Len(in) :
                IsScreenRun(in, i, j) /\ ~IsMixedRun(in, i, j) =>
                    \A k \in i..j :
                        in[k].rid \in Rids(out) =>
                            RowOf(out, in[k].rid).duration_seconds = InputDuration(in[k])

\* collapse_intermediate_screens has run on a run of a sentinel event and two
\* taps of 1 s, 2 s and 4 s: the first tap has taken the sentinel's second
C6_Witness ==
    /\ stage = "collapse_intermediate_screens"
    /\ error = "none"
    /\ Len(merged_df) = 2
    /\ merged_df[1].rid = 2 /\ merged_df[1].duration_seconds = 3
    /\ merged_df[2].rid = 3 /\ merged_df[2].duration_seconds = 4
    /\ merged_df[1].global_session_id = merged_df[2].global_session_id

\* C7: collapse_intermediate_screens leaves a maximal same-screen run whose
\* members all have the sentinel action untouched: every member stays, in
\* place and with its duration, whatever the run length.
C7_AllSentinelUntouched ==
    ScreenOut.error = "none" =>
        LET in == SortValues(merged_df)
            out == ScreenOut.df
        IN  \A i, j \in 1..Len(in) :
                IsScreenRun(in, i, j) /\ ~IsMixedRun(in, i, j) =>
                    \E p \in 1..Len(out) :
                        /\ p + (j - i) <= Len(out)
                        /\ \A k \in i..j :
                               out[p + (k - i)] =
                                   [in[k] EXCEPT !.duration_seconds = InputDuration(in[k])]

\* collapse_intermediate_screens has run and a run of three sentinel events
\* of one session on one screen is still there
C7_Witness ==
    /\ stage = "collapse_intermediate_screens"
    /\ error = "none"
    /\ Len(merged_df) = 3
    /\ \A i \in 1..3 :
           /\ merged_df[i].action = not_specified
           /\ merged_df[i].screen = merged_df[1].screen
           /\ merged_df[i].global_session_id = merged_df[1].global_session_id
           /\ merged_df[i].duration_seconds = Pow2(i - 1)

----------------------------------------------------------------------------
(* C8 *)

\* the position of the row rid in df
PositionOf(df, rid) == CHOOSE i \in 1..Len(df) : df[i].rid = rid

\* a pass took the table merged_df to res: no more rows than before, every
\* row is a row of the input with its session id, and the rows stand as they
\* stand in the input sorted by (global_session_id, timestamp)
PassPreserves(res) ==
    res.error = "none" =>
        LET in == SortValues(merged_df)
            out == res.df
        IN  /\ Len(out) <= Len(merged_df)
            /\ \A k \in 1..Len(out) :
                   /\ out[k].rid \in Rids(merged_df)
                   /\ out[k].global_session_id =
                          RowOf(merged_df, out[k].rid).global_session_id
                   /\ out[k].event_time = RowOf(merged_df, out[k].rid).event_time
            /\ \A k, l \in 1..Len(out) :
                   k < l => PositionOf(in, out[k].rid) < PositionOf(in, out[l].rid)
            /\ \A k \in 1..(Len(out) - 1) : NotAfter(out[k], out[k + 1])

\* C8: both collapse passes return no more rows than they were given, every
\* surviving row keeps its global_session_id, and the surviving rows are in
\* the relative (global_session_id, timestamp) order of the sorted input.
C8_PassesPreserveOrder ==
    /\ PassPreserves(DedupOut)
    /\ PassPreserves(ScreenOut)

\* both passes have run: rows 1 and 2 of session 1 were merged into row 2,
\* and session 2's row 3 stands after it
C8_Witness ==
    /\ stage = "collapse_intermediate_screens"
    /\ error = "none"
    /\ "click_count" \in columns
    /\ Len(merged_df) = 2
    /\ merged_df[1].global_session_id = 1 /\ merged_df[1].rid = 2
    /\ merged_df[2].global_session_id = 2 /\ merged_df[2].rid = 3
    /\ merged_df[1].dbl_count = 1

----------------------------------------------------------------------------
(* C9 *)

\* scenario A after run-collapse and then screen-collapse
ScenarioAOut ==
    LET run == remove_consecutive_duplicates_with_clicks(ScenarioA, SavedColumns)
    IN  collapse_intermediate_screens(run.df, run.columns)

\* C9: scenario A leaves, after run-collapse and then screen-collapse, one
\* row with action 'Tap', duration_seconds 18, dbl_count 2 and
\* dbl_duration_seconds 8
C9_ScenarioA_AsStated ==
    merged_df = ScenarioA /\ columns = SavedColumns =>
        /\ ScenarioAOut.error = "none"
        /\ Len(ScenarioAOut.df) = 1
        /\ ScenarioAOut.df[1].action = "Tap"
        /\ ScenarioAOut.df[1].duration_seconds = 18
        /\ ScenarioAOut.df[1].dbl_count = 2
        /\ ScenarioAOut.df[1].dbl_duration_seconds = 8

\* what the code leaves of scenario A after run-collapse and then
\* screen-collapse: one row, the 'Tap', with duration_seconds = 18,
\* click_count = 1, dbl_count = 0 and dbl_duration_seconds = 0; the merged
\* sentinel row, deleted by the screen-collapse, held dbl_count = 1 and
\* dbl_duration_seconds = 5.
C9_ScenarioA ==
    merged_df = ScenarioA /\ columns = SavedColumns =>
        /\ DedupOut.error = "none"
        /\ Len(DedupOut.df) = 2
        /\ DedupOut.df[1].duration_seconds = 8
        /\ DedupOut.df[1].dbl_count = 1
        /\ DedupOut.df[1].dbl_duration_seconds = 5
        /\ ScenarioAOut.error = "none"
        /\ ScenarioAOut.df
             = << Row(3, 1, 1, 8, "Esche", "Otkrytie ekrana", "Tap", 1, 18, 1, 0, 0) >>

\* both passes have run on scenario A
C9_Witness ==
    /\ stage = "collapse_intermediate_screens"
    /\ error = "none"
    /\ "click_count" \in columns
    /\ merged_df
         = << Row(3, 1, 1, 8, "Esche", "Otkrytie ekrana", "Tap", 1, 18, 1, 0, 0) >>

----------------------------------------------------------------------------
(* C10 *)

\* the columns f'{prefix}_{metric}' of the blocks of a taxonomy document
BlockColumns(blocks) ==
    LET prefixes == generate_prefixes(blocks)
    IN  {<<prefixes[b], m>> : b \in DOMAIN prefixes, m \in Metrics}

\* the blocks that have the prefix of column col
BlocksOfColumn(blocks, col) ==
    LET prefixes == generate_prefixes(blocks)
    IN  {b \in DOMAIN prefixes : prefixes[b] = col[1]}

\* C10: FunnelFeaturesExtractor.transform returns exactly one row for every
\* distinct global_session_id of its input and no other row, and in every
\* row every block column holds a value; for a block with no mapped event in
\* the session the column is 0, and -1 for max_step, also in a session none
\* of whose events maps to a block.  merged_df is the table that transform
\* was given and features what it returned, for either taxonomy document.
C10_FeatureRowCompleteness ==
    stage = "transform" /\ error = "none" =>
            LET out == features.rows
                doc == features.blocks_data
                lookup == build_action_lookup(doc)
            IN  /\ \A g \in SessionIds(merged_df) :
                       Cardinality({k \in 1..Len(out) : out[k].global_session_id = g}) = 1
                /\ \A k \in 1..Len(out) :
                       /\ out[k].global_session_id \in SessionIds(merged_df)
                       /\ \A col \in BlockColumns(doc) :
                              LET blocks == BlocksOfColumn(doc, col)
                              IN  /\ col \in DOMAIN out[k].block
                                  /\ (\A i \in SessionRows(merged_df, out[k].global_session_id) :
                                          block_name_of(lookup, merged_df[i]) \notin blocks)
                                      => out[k].block[col] = IF col[2] = "max_step" THEN -1 ELSE 0

\* transform has returned two rows: session 1 with an event in the block
\* 'nav', session 2 with no event in any block, 0 and -1 in its columns
C10_Witness ==
    /\ stage = "transform"
    /\ error = "none"
    /\ Len(features.rows) = 2
    /\ features.rows[1].block[<<"nav", "count">>] >= 1
    /\ features.rows[2].global_session_id = 2
    /\ \A col \in BlockColumns(features.blocks_data) :
           features.rows[2].block[col] = IF col[2] = "max_step" THEN -1 ELSE 0
    /\ \A i \in SessionRows(merged_df, 2) :
           block_name_of(build_action_lookup(features.blocks_data), merged_df[i]) = NoBlock

----------------------------------------------------------------------------
(* C11 *)

\* the feature row of session g in the table out
FeatureRowOf(out, g) ==
    out[CHOOSE k \in 1..Len(out) : out[k].global_session_id = g]

\* the events of session g whose triple the lookup maps to block b
EventsOfBlock(df, lookup, g, b) ==
    {r \in Range(df) :
        /\ r.global_session_id = g
        /\ <<r.screen, r.functional, r.action>> \in DOMAIN lookup.action_to_block
        /\ lookup.action_to_block[<<r.screen, r.functional, r.action>>][1] = b}

RECURSIVE SumField(_, _)
\* the sum of a column over a set of events
SumField(E, field) ==
    IF E = {} THEN 0
    ELSE LET r == CHOOSE r \in E : TRUE
         IN  r[field] + SumField(E \ {r}, field)

\* C11: for every (session, block) pair with a mapped event the block's
\* columns of the session's feature row are the rollups over exactly the
\* session's events mapped to the block: count their number, max_step the
\* maximum of their steps, success_count and review_count the numbers of
\* them flagged success and review, dur_sec, click_count, dbl_dur_sec and
\* dbl_count the sums of their duration_seconds, click_count,
\* dbl_duration_seconds and dbl_count.  merged_df is the table that
\* transform was given and features what it returned.
C11_BlockRollups ==
    stage = "transform" /\ error = "none" =>
            LET out == features.rows
                doc == features.blocks_data
                lookup == build_action_lookup(doc)
                prefixes == generate_prefixes(doc)
            IN  \A g \in SessionIds(merged_df), b \in DOMAIN prefixes :
                    LET E == EventsOfBlock(merged_df, lookup, g, b)
                        cell(m) == FeatureRowOf(out, g).block[<<prefixes[b], m>>]
                        key(r) == <<r.screen, r.functional, r.action>>
                    IN  E # {} =>
                            /\ cell("count") = Cardinality(E)
                            /\ \E r \in E : cell("max_step") = lookup.action_to_block[key(r)][2]
                            /\ \A r \in E : cell("max_step") >= lookup.action_to_block[key(r)][2]
                            /\ cell("success_count") =
                                   Cardinality({r \in E : key(r) \in DOMAIN lookup.success_actions})
                            /\ cell("review_count") =
                                   Cardinality({r \in E : key(r) \in DOMAIN lookup.review_actions})
                            /\ cell("dur_sec") = SumField(E, "duration_seconds")
                            /\ cell("click_count") = SumField(E, "click_count")
                            /\ cell("dbl_dur_sec") = SumField(E, "dbl_duration_seconds")
                            /\ cell("dbl_count") = SumField(E, "dbl_count")

\* transform has returned a row of a session with events in two blocks: the
\* sentinel event in 'nav' and a merged run of two taps in 'block_0'
C11_Witness ==
    /\ stage = "transform"
    /\ error = "none"
    /\ \E k \in 1..Len(features.rows) :
           /\ <<"block_0", "count">> \in DOMAIN features.rows[k].block
           /\ features.rows[k].block[<<"nav", "count">>] = 1
           /\ features.rows[k].block[<<"block_0", "count">>] = 1
           /\ features.rows[k].block[<<"block_0", "click_count">>] = 2
           /\ features.rows[k].block[<<"block_0", "dbl_count">>] = 1
           /\ features.rows[k].block[<<"nav", "max_step">>] = 1
           /\ features.rows[k].block[<<"block_0", "max_step">>] = 0

----------------------------------------------------------------------------
(* C12 *)

\* the event's (screen, functional, action) is absent from the taxonomy
AbsentFromTaxonomy(lookup, r) ==
    <<r.screen, r.functional, r.action>> \notin DOMAIN lookup.action_to_block

\* df without the events whose triple is absent from the taxonomy
WithoutAbsent(df, lookup) ==
    LET kept == {i \in 1..Len(df) : ~AbsentFromTaxonomy(lookup, df[i])}
        Nth(k) == CHOOSE i \in kept : Cardinality({j \in kept : j <= i}) = k
    IN  [k \in 1..Cardinality(kept) |-> df[Nth(k)]]

\* C12 (scenario D): an event whose triple is absent from the taxonomy adds
\* nothing to any block column of its session's feature row (the block
\* columns are those of the table without such events, and 0 / -1 when the
\* session has no other event), and its duration_seconds is part of
\* sess_dur_sec, the sum of duration_seconds over all events of the session.
C12_AbsentTriple ==
    stage = "transform" /\ error = "none" =>
            LET out == features.rows
                doc == features.blocks_data
                lookup == build_action_lookup(doc)
                known == WithoutAbsent(merged_df, lookup)
                outKnown == FeatureTable(known, doc)
            IN  \A g \in SessionIds(merged_df) :
                    /\ FeatureRowOf(out, g).sess_dur_sec =
                           SumField({r \in Range(merged_df) : r.global_session_id = g},
                                    "duration_seconds")
                    /\ IF g \in SessionIds(known)
                       THEN FeatureRowOf(out, g).block = FeatureRowOf(outKnown, g).block
                       ELSE \A col \in BlockColumns(doc) :
                                FeatureRowOf(out, g).block[col] =
                                    IF col[2] = "max_step" THEN -1 ELSE 0

\* transform has returned the row of a session with a sentinel event of 1 s
\* in 'nav' and an event of 2 s whose triple no block lists: nav_dur_sec is
\* 1 and sess_dur_sec is 3
C12_Witness ==
    /\ stage = "transform"
    /\ error = "none"
    /\ \E k \in 1..Len(features.rows) :
           /\ features.rows[k].sess_dur_sec = 3
           /\ features.rows[k].block[<<"nav", "dur_sec">>] = 1
           /\ features.rows[k].block[<<"nav", "count">>] = 1
           /\ \A col \in BlockColumns(features.blocks_data) :
                  col[1] # "nav" =>
                      features.rows[k].block[col] = IF col[2] = "max_step" THEN -1 ELSE 0
           /\ \E i \in 1..Len(merged_df) :
                  /\ merged_df[i].global_session_id = features.rows[k].global_session_id
                  /\ AbsentFromTaxonomy(build_action_lookup(features.blocks_data), merged_df[i])
                  /\ merged_df[i].duration_seconds = 2

----------------------------------------------------------------------------
(* C13 *)

\* the five typed action lists of a group
TypedActionLists ==
    {"regular_actions", "cancel_actions", "exit_actions", "success_review",
     "success_actions"}

\* the triples a block lists under the action types in types
ListedTriples(block, types) ==
    {<<block.groups[n].screen, block.groups[n].functional,
       block.groups[n][t][a].action>> :
        <<n, t, a>> \in
            {x \in (1..Len(block.groups)) \X types \X (1..MaxRows) :
                /\ x[2] \in DOMAIN block.groups[x[1]]
                /\ x[3] <= Len(block.groups[x[1]][x[2]])}}

\* C13: every triple in any of the five typed action lists of a block is
\* mapped to that block, so that the events of a session with such triples
\* are the block's count in the session's feature row, and those listed
\* under success_review its review_count.
C13_AllListsMapped ==
    required_cols \subseteq columns /\ merged_df # <<>> =>
        \A doc \in TaxonomyDocuments :
            LET out == FeatureTable(merged_df, doc)
                prefixes == generate_prefixes(doc)
            IN  \A g \in SessionIds(merged_df), n \in 1..Len(doc) :
                    LET listed == {r \in Range(merged_df) :
                                      /\ r.global_session_id = g
                                      /\ <<r.screen, r.functional, r.action>>
                                            \in ListedTriples(doc[n], TypedActionLists)}
                        review == {r \in listed :
                                      <<r.screen, r.functional, r.action>>
                                          \in ListedTriples(doc[n], {"success_review"})}
                        row == FeatureRowOf(out, g)
                    IN  /\ row.block[<<prefixes[doc[n].name], "count">>] = Cardinality(listed)
                        /\ row.block[<<prefixes[doc[n].name], "review_count">>]
                               = Cardinality(review)

----------------------------------------------------------------------------
(* DataPreprocessor.add_user_cohort_status *)
(* Here an event time counts the seconds from 2025-01-01 00:00:00 UTC.     *)

SecondsPerDay == 86400

\* the days of 2025 before the first day of each month
DaysBeforeMonth == <<0, 31, 59, 90, 120, 151, 181, 212, 243, 273, 304, 334>>

\* .dt.month of a time of 2025, NaT for a missing time
MonthOf(t) ==
    IF t = NaT THEN NaT
    ELSE Cardinality({m \in 1..12 : DaysBeforeMonth[m] * SecondsPerDay <= t})

September == 9
October == 10

\* user_months[user_id]: set(x.dropna().unique()) of the device's months
user_months(df, user_id) ==
    {MonthOf(df[i].event_time) :
        i \in {j \in 1..Len(df) : df[j].device_id = user_id}} \ {NaT}

\* a classification that takes 'not in October' for 'lost'
user_status_lost_without_september(df, user_id) ==
    LET has_september == September \in user_months(df, user_id)
        has_october == October \in user_months(df, user_id)
    IN  IF ~has_october
        THEN [is_lost |-> TRUE, is_stay |-> FALSE, is_new |-> FALSE]
        ELSE IF has_september
        THEN [is_lost |-> FALSE, is_stay |-> TRUE, is_new |-> FALSE]
        ELSE [is_lost |-> FALSE, is_stay |-> FALSE, is_new |-> TRUE]

\* user_status[user_id]
user_status(df, user_id) ==
    LET has_september == September \in user_months(df, user_id)
        has_october == October \in user_months(df, user_id)
    IN  IF has_september /\ ~has_october
        THEN [is_lost |-> TRUE, is_stay |-> FALSE, is_new |-> FALSE]
        ELSE IF has_september /\ has_october
        THEN [is_lost |-> FALSE, is_stay |-> TRUE, is_new |-> FALSE]
        ELSE IF ~has_september /\ has_october
        THEN [is_lost |-> FALSE, is_stay |-> FALSE, is_new |-> TRUE]
        ELSE [is_lost |-> FALSE, is_stay |-> FALSE, is_new |-> FALSE]

\* a row of result_df: the row of df and its three flags
CohortRow(df, i) ==
    LET status == user_status(df, df[i].device_id)
    IN  [f \in DOMAIN df[i] \cup {"is_lost", "is_stay", "is_new"} |->
            IF f \in DOMAIN status THEN status[f] ELSE df[i][f]]

\* what add_user_cohort_status(df) returns (rows) or raises (error); df
\* itself is copied, not written
add_user_cohort_status(df, cols) ==
    IF df = <<>> THEN [rows |-> <<>>, error |-> "ValueError"]
    ELSE IF ~({"event_time", "device_id"} \subseteq cols)
    THEN [rows |-> <<>>, error |-> "ValueError"]
    ELSE [rows |-> [i \in 1..Len(df) |-> CohortRow(df, i)], error |-> "none"]

AddUserCohortStatus ==
    LET res == add_user_cohort_status(merged_df, columns)
    IN  Call("add_user_cohort_status", Outcome(merged_df, columns, res.error),
             [blocks_data |-> <<>>, rows |-> res.rows])

\* the times of the tables add_user_cohort_status is given: the last second
\* of August, the first and the last of September, the first of October, and
\* a missing time
CohortTimes == {243 * SecondsPerDay - 1, 243 * SecondsPerDay,
                273 * SecondsPerDay - 1, 273 * SecondsPerDay, NaT}

CohortDevices == {1, 2}

\* the tables: up to MaxRows events of two devices, or no table at all
CohortTables ==
    UNION {[1..n -> CohortDevices \X CohortTimes] : n \in 0..MaxRows}

CohortTable(c) ==
    [i \in 1..Len(c) |->
        Row(i, c[i][1], 1, c[i][2], "Esche", "Otkrytie ekrana", "Tap", 0, 0, 0, 0, 0)]

\* the column sets: all the loaded columns, or one of the two read missing
CohortColumnSets ==
    {BaseColumns, BaseColumns \ {"event_time"}, BaseColumns \ {"device_id"}}

CohortInit ==
    /\ \E c \in CohortTables : merged_df = CohortTable(c)
    /\ columns \in CohortColumnSets
    /\ stage = "load"
    /\ error = "none"
    /\ features = NoFeatures
    /\ NoRawData

CohortNext == AddUserCohortStatus

CohortSpec == CohortInit /\ [][CohortNext]_vars

----------------------------------------------------------------------------
(* C14 *)

CohortOut == add_user_cohort_status(merged_df, columns)

\* the device of row r has an event in month m (of any day and hour)
ActiveIn(df, dev, m) ==
    \E i \in 1..Len(df) :
        /\ df[i].device_id = dev
        /\ df[i].event_time # NaT
        /\ DaysBeforeMonth[m] * SecondsPerDay <= df[i].event_time
        /\ m < 12 => df[i].event_time < DaysBeforeMonth[m + 1] * SecondsPerDay

\* C14: add_user_cohort_status keeps the rows and gives every row of a
\* device the three flags that follow from whether the device has an event
\* in month 9 and in month 10: 9 only -> is_lost, both -> is_stay, 10 only ->
\* is_new, neither -> all three False, returned as a normal result.
C14_CohortFlags ==
    merged_df # <<>> /\ {"event_time", "device_id"} \subseteq columns =>
        /\ CohortOut.error = "none"
        /\ Len(CohortOut.rows) = Len(merged_df)
        /\ \A i \in 1..Len(merged_df) :
               LET r == CohortOut.rows[i]
                   sep == ActiveIn(merged_df, merged_df[i].device_id, 9)
                   oct == ActiveIn(merged_df, merged_df[i].device_id, 10)
               IN  /\ r.rid = merged_df[i].rid
                   /\ r.device_id = merged_df[i].device_id
                   /\ r.is_lost = (sep /\ ~oct)
                   /\ r.is_stay = (sep /\ oct)
                   /\ r.is_new = (~sep /\ oct)

\* add_user_cohort_status has returned: device 1 with events in September
\* and October stays, device 2 with an event in August only has no flag
C14_Witness ==
    /\ stage = "add_user_cohort_status"
    /\ error = "none"
    /\ Len(features.rows) = 3
    /\ \E i, j \in 1..3 :
           /\ features.rows[i].device_id = 1 /\ features.rows[i].is_stay
           /\ ~features.rows[i].is_lost /\ ~features.rows[i].is_new
           /\ features.rows[j].device_id = 2
           /\ features.rows[j].event_time = 243 * SecondsPerDay - 1
           /\ ~features.rows[j].is_lost /\ ~features.rows[j].is_stay
           /\ ~features.rows[j].is_new

----------------------------------------------------------------------------
(* C15 *)

\* C15: every row of the feature table transform returns has exactly
\* 8*17+1 = 137 numeric feature columns, the eight metrics of each of the 17
\* fixed blocks and sess_dur_sec, whatever blocks the taxonomy document lists
\* and whatever blocks the events touch.
C15_FixedColumnCount ==
    required_cols \subseteq columns /\ merged_df # <<>> =>
        \A doc \in TaxonomyDocuments :
            LET out == FeatureTable(merged_df, doc)
            IN  \A k \in 1..Len(out) :
                    /\ Cardinality(DOMAIN prefixes_map) = 17
                    /\ Cardinality(DOMAIN out[k].block) + 1 = 8 * 17 + 1
                    /\ DOMAIN out[k].block =
                           {<<prefixes_map[n], m>> : n \in DOMAIN prefixes_map, m \in Metrics}

----------------------------------------------------------------------------
(* C16 *)

\* scenario C through add_global_session_id and calculate_event_duration
ScenarioCOut ==
    LET ids == add_global_session_id(ScenarioC, BaseColumns)
    IN  calculate_event_duration(ids.df, ids.columns)

\* C16: after calculate_event_duration every duration_seconds is an integer
\* >= 0, and in every session the events at the session's latest time, the
\* session's last row and the events with a missing time have
\* duration_seconds = 0, also when the session has one event or events at
\* the same time; the events at 10:00:00, 10:00:05, 10:00:12 get 5, 7, 0.
C16_DurationsNonNegative ==
    /\ DurOut.error = "none" =>
           LET out == DurOut.df
           IN  /\ Len(out) = Len(merged_df)
               /\ \A i \in 1..Len(out) :
                      LET session == {j \in 1..Len(out) :
                                         out[j].global_session_id = out[i].global_session_id}
                      IN  /\ out[i].duration_seconds \in Nat
                          /\ (\A j \in session : TimeBefore(out[j].event_time,
                                                            out[i].event_time)
                                                 \/ out[j].event_time = out[i].event_time)
                                 => out[i].duration_seconds = 0
                          /\ out[i].event_time = NaT => out[i].duration_seconds = 0
                          /\ (\A j \in session : j <= i) => out[i].duration_seconds = 0
    /\ merged_df = ScenarioC =>
           /\ ScenarioCOut.error = "none"
           /\ [i \in 1..3 |-> ScenarioCOut.df[i].event_time] = <<0, 5, 12>>
           /\ [i \in 1..3 |-> ScenarioCOut.df[i].duration_seconds] = <<5, 7, 0>>

\* calculate_event_duration has run on a session with events at 0 s and
\* 5 s and one with a missing time: durations 5, 0 and 0
C16_Witness ==
    /\ stage = "calculate_event_duration"
    /\ error = "none"
    /\ Len(merged_df) = 3
    /\ \A i \in 1..3 : merged_df[i].global_session_id = 1
    /\ [i \in 1..3 |-> merged_df[i].event_time] = <<0, 5, NaT>>
    /\ [i \in 1..3 |-> merged_df[i].duration_seconds] = <<5, 0, 0>>

----------------------------------------------------------------------------
(* C17 *)

\* C17: after remove_consecutive_duplicates_with_clicks the click_count of
\* the row that is left of a maximal run of same-session events with
\* identical (screen, functional, action) is the number of the run's members
\* whose action is not the sentinel, and 1 when there is none.
C17_ClickCount ==
    DedupOut.error = "none" =>
        LET in == SortValues(merged_df)
            out == DedupOut.df
        IN  \A i, j \in 1..Len(in) :
                IsTripleRun(in, i, j) =>
                    LET meaningful == Cardinality({k \in i..j : in[k].action # not_specified})
                    IN  /\ in[j].rid \in Rids(out)
                        /\ RowOf(out, in[j].rid).click_count =
                               IF meaningful < 1 THEN 1 ELSE meaningful

----------------------------------------------------------------------------
(* C18: add_global_session_id on a table without one of its key columns *)

\* C18: when the table has rows and lacks the device-id column or the
\* device-local session-number column, add_global_session_id fails with
\* ValueError
C18_MissingKeyColumnValueError ==
    (merged_df # <<>> /\ ~({"device_id", "session_number"} \subseteq columns))
        => AddOut.error = "ValueError"

----------------------------------------------------------------------------
(* C19: a stage that raises leaves self.merged_df as it was *)

TrailOut == remove_trailing_empty_screens(merged_df, columns)
TyposOut == fix_action_functional_typos(merged_df, columns, FALSE)
TyposOutCategorical == fix_action_functional_typos(merged_df, columns, TRUE)

StageOutcomes ==
    {AddOut, DurOut, DedupOut, ScreenOut, TrailOut, TyposOut, TyposOutCategorical}

\* C19: whichever of the six stages is called on the table, if the call
\* raises, the table it leaves has the rows, the cells and the columns that
\* it had before the call
C19_FailedStageLeavesTable ==
    \A res \in StageOutcomes :
        res.error # "none" => (res.df = merged_df /\ res.columns = columns)

----------------------------------------------------------------------------
(* C20: structural preconditions fail with ValueError; a pass with nothing *)
(* to collapse is no error                                                  *)

\* the table has the columns that the two collapse passes read
HasCollapseColumns ==
    /\ merged_df # <<>>
    /\ {"global_session_id", "event_time", "screen", "functional", "action"}
          \subseteq columns

\* no event has the key of the event before it in its session
NoRepeatedKey(df) ==
    \A i \in 1..Len(df) : ~is_duplicate(df, i)

\* no run of one session's consecutive events on one screen holds both a
\* sentinel event and an event with an action
NoSentinelToCollapse(df) ==
    \A i \in 1..Len(df) : \A j \in i..Len(df) :
        (IsScreenRun(df, i, j) /\ IsMixedRun(df, i, j))
            => \A k \in i..j : df[k].action # not_specified

\* C20: on an empty table or one without a timestamp or device-id column
\* add_user_cohort_status raises ValueError; on an empty table or one
\* without global_session_id the four stages calculate_event_duration,
\* remove_consecutive_duplicates_with_clicks, collapse_intermediate_screens
\* and remove_trailing_empty_screens raise ValueError and leave the table;
\* on a table with the columns they read, a collapse pass that has nothing
\* to collapse returns without error and with every row
C20_PreconditionFailures ==
    /\ (merged_df = <<>> \/ ~({"event_time", "device_id"} \subseteq columns))
          => CohortOut.error = "ValueError"
    /\ (merged_df = <<>> \/ "global_session_id" \notin columns)
          => \A res \in {DurOut, DedupOut, ScreenOut, TrailOut} :
                res.error = "ValueError" /\ res.df = merged_df
    /\ (HasCollapseColumns /\ NoRepeatedKey(SortValues(merged_df)))
          => (DedupOut.error = "none" /\ Len(DedupOut.df) = Len(merged_df))
    /\ (HasCollapseColumns /\ NoSentinelToCollapse(SortValues(merged_df)))
          => (ScreenOut.error = "none" /\ Len(ScreenOut.df) = Len(merged_df))

\* collapse_intermediate_screens was called on a table of several rows
\* without global_session_id and raised ValueError
C20_Witness ==
    /\ stage = "collapse_intermediate_screens"
    /\ error = "ValueError"
    /\ Len(merged_df) > 1
    /\ "global_session_id" \notin columns
    /\ "duration_seconds" \notin columns

----------------------------------------------------------------------------
(* DataPreprocessor.load_merged_data *)

\* a cell of a numeric column that pd.to_numeric(errors='coerce') could not
\* parse, or that the file leaves empty
NaN == -1

\* the columns of int_cols that the model has
int_cols == {"device_id", "session_number", "global_session_id",
             "duration_seconds", "click_count", "dbl_duration_seconds",
             "dbl_count"}

\* pd.to_numeric(column, errors='coerce').fillna(0).astype(dtype)
to_numeric_fillna(v) == IF v = NaN THEN 0 ELSE v

\* the numeric columns that the file has, converted
ConvertRow(r, cols) ==
    [f \in DOMAIN r |->
        IF f \in int_cols \cap cols THEN to_numeric_fillna(r[f]) ELSE r[f]]

\* exists is path.exists(); df and cols are what read_csv returns
load_merged_data(exists, df, cols) ==
    IF ~exists THEN Outcome(df, cols, "FileNotFoundError")
    ELSE Outcome([i \in 1..Len(df) |-> ConvertRow(df[i], cols)], cols, "none")

LoadMergedData ==
    /\ stage \in {"file", "no file"}
    /\ Call("load_merged_data",
            load_merged_data(stage = "file", merged_df, columns), NoFeatures)

\* the int_cols of load_merged_data_base that the model has
base_int_cols == {"device_id", "session_number"}

\* load_merged_data_base: self.merged_df is the file as read; a plain
\* astype(int) of a key column raises on a missing or unparseable cell
load_merged_data_base(exists, df, cols) ==
    IF ~exists THEN Outcome(df, cols, "FileNotFoundError")
    ELSE IF \E i \in 1..Len(df) : \E col \in base_int_cols \cap cols : df[i][col] = NaN
    THEN Outcome(df, cols, "ValueError")
    ELSE Outcome(df, cols, "none")

LoadMergedDataBase ==
    /\ stage \in {"file", "no file"}
    /\ Call("load_merged_data_base",
            load_merged_data_base(stage = "file", merged_df, columns), NoFeatures)

\* load_merged_data_funnel: the conversion of load_merged_data, then a
\* summary that reads the column 'date'
load_merged_data_funnel(exists, df, cols) ==
    IF ~exists THEN Outcome(df, cols, "FileNotFoundError")
    ELSE Outcome([i \in 1..Len(df) |-> ConvertRow(df[i], cols)], cols,
                 IF "date" \in cols THEN "none" ELSE "KeyError")

LoadMergedDataFunnel ==
    /\ stage \in {"file", "no file"}
    /\ Call("load_merged_data_funnel",
            load_merged_data_funnel(stage = "file", merged_df, columns), NoFeatures)

\* the values of a key cell of a saved file
FileKeys == {1, NaN}

\* files of up to MaxRows events at the times 1, 2, ...: every row has a
\* device id, a session number and a global_session_id cell
FileTables ==
    UNION {[1..n -> FileKeys \X FileKeys \X FileKeys] : n \in 1..MaxRows}

FileTable(c) ==
    [i \in 1..Len(c) |->
        Row(i, c[i][1], c[i][2], i, "Esche", "Otkrytie ekrana", "Tap",
            c[i][3], 1, 0, 0, 0)]

\* before the call: the file as read_csv would return it, or no file
LoadInit ==
    /\ \/ /\ \E c \in FileTables : merged_df = FileTable(c)
          /\ columns \in {SavedColumns, SavedColumns \cup {"date"}}
          /\ stage = "file"
       \/ /\ merged_df = <<>>
          /\ columns = {}
          /\ stage = "no file"
    /\ error = "none"
    /\ features = NoFeatures
    /\ NoRawData

LoadNext == LoadMergedData \/ LoadMergedDataBase \/ LoadMergedDataFunnel

LoadSpec == LoadInit /\ [][LoadNext]_vars

----------------------------------------------------------------------------
(* C21: load_merged_data and key cells without a value *)

key_columns == {"device_id", "session_number", "global_session_id"}

HasBadKey(df, cols) ==
    \E i \in 1..Len(df) : \E col \in key_columns \cap cols : df[i][col] = NaN

\* C21: when a key cell (device id, session number, global_session_id) of
\* the file holds no parseable value, load_merged_data fails
C21_BadKeyFailsLoad ==
    (stage = "file" /\ HasBadKey(merged_df, columns))
        => load_merged_data(TRUE, merged_df, columns).error # "none"

----------------------------------------------------------------------------
(* C22: the stages that sort on entry and the order of the input rows *)

\* the rows of df in the order p
Permuted(df, p) == [i \in 1..Len(df) |-> df[p[i]]]

\* two events of one session carry the same timestamp (or both none)
HasTimeTie(df) ==
    \E i, j \in 1..Len(df) :
        /\ i # j
        /\ df[i].global_session_id = df[j].global_session_id
        /\ df[i].event_time = df[j].event_time

\* C22: calculate_event_duration, remove_consecutive_duplicates_with_clicks
\* and collapse_intermediate_screens return the same table for every order
\* of the rows of the table they are given
C22_OrderIndependent ==
    {"global_session_id", "event_time"} \subseteq columns =>
        \A p \in Permutations(1..Len(merged_df)) :
            LET df == Permuted(merged_df, p)
            IN  /\ calculate_event_duration(df, columns) = DurOut
                /\ remove_consecutive_duplicates_with_clicks(df, columns) = DedupOut
                /\ collapse_intermediate_screens(df, columns) = ScreenOut

----------------------------------------------------------------------------
(* main: the steps of the driver on a saved table *)

\* the columns of the table transform returns that the model has
FeatureColumns(cols) ==
    (cols \cap {"event_time", "device_id", "session_number"})
        \cup {"global_session_id", "sess_dur_sec"}

\* the saved tables of the driver: events of two devices, each with one
\* session, in September or October
DriverTimes == {243 * SecondsPerDay, 273 * SecondsPerDay}

DriverTables ==
    UNION {[1..n -> CohortDevices \X DriverTimes] : n \in 1..MaxRows}

DriverTable(c) ==
    SortValues([i \in 1..Len(c) |->
        Row(i, c[i][1], 1, c[i][2], "Esche", "Otkrytie ekrana", not_specified,
            c[i][1], 1, 1, 0, 0)])

\* merged_df = preprocessor.load_merged_data()
DriverInit ==
    /\ \E c \in DriverTables : merged_df = DriverTable(c)
    /\ columns = SavedColumns \cup ClickColumns
    /\ stage = "load"
    /\ error = "none"
    /\ features = NoFeatures
    /\ NoRawData

\* df_transformed = extractor.transform(merged_df)
DriverTransform ==
    /\ stage = "load"
    /\ Transform

\* df = preprocessor.add_user_cohort_status(df_transformed)
DriverCohortStatus ==
    /\ stage = "transform"
    /\ error = "none"
    /\ LET res == add_user_cohort_status(features.rows, FeatureColumns(columns))
       IN  Call("add_user_cohort_status", Outcome(merged_df, columns, res.error),
                [blocks_data |-> features.blocks_data, rows |-> res.rows])

\* preprocessor.merged_df = df[df['is_new'] == False].copy()
DriverDropNew ==
    /\ stage = "add_user_cohort_status"
    /\ error = "none"
    /\ Call("drop_new",
            Outcome(SelectSeq(features.rows, LAMBDA r : r.is_new = FALSE),
                    FeatureColumns(columns) \cup {"is_lost", "is_stay", "is_new"},
                    "none"),
            features)

DriverNext ==
    \/ DriverTransform
    \/ DriverCohortStatus
    \/ DriverDropNew

DriverSpec == DriverInit /\ [][DriverNext]_vars

----------------------------------------------------------------------------
(* C23: the driver drops the rows of new users before transform runs *)

\* C23: when transform has run in the driver, no session of its result is of
\* a device that add_user_cohort_status flags is_new
C23_NoNewUserAggregated ==
    (stage = "transform" /\ error = "none") =>
        LET flagged == add_user_cohort_status(features.rows, FeatureColumns(columns))
        IN  \A k \in 1..Len(flagged.rows) : ~flagged.rows[k].is_new

----------------------------------------------------------------------------
(* C24: no stage deletes a session *)

\* C24: every global_session_id of the table still has a row after each of
\* calculate_event_duration, remove_consecutive_duplicates_with_clicks,
\* collapse_intermediate_screens, remove_trailing_empty_screens and
\* fix_action_functional_typos, whichever stages were called before
C24_SessionsKept ==
    "global_session_id" \in columns =>
        \A res \in {DurOut, DedupOut, ScreenOut, TrailOut, TyposOut,
                    TyposOutCategorical} :
            SessionIds(merged_df) \subseteq SessionIds(res.df)

----------------------------------------------------------------------------
(* C25: the example of the docstring of the run collapse *)

\* C25: the four events of the docstring example collapse into one row, the
\* last event, with click_count 2, duration_seconds 15,
\* dbl_duration_seconds 10 and dbl_count 3
C25_DocstringExample ==
    (merged_df = ScenarioDocstring /\ columns = SavedColumns) =>
        /\ DedupOut.error = "none"
        /\ Len(DedupOut.df) = 1
        /\ DedupOut.df[1].rid = 4
        /\ DedupOut.df[1].click_count = 2
        /\ DedupOut.df[1].duration_seconds = 15
        /\ DedupOut.df[1].dbl_duration_seconds = 10
        /\ DedupOut.df[1].dbl_count = 3

----------------------------------------------------------------------------
(* C26: the substitutions of fix_action_functional_typos *)

\* the row as the docstring's list of substitutions leaves it
DocumentedFix(r) ==
    [r EXCEPT
        !.functional =
            IF @ = "Vybor uslugi partnyorov" THEN "Vybor uslugi partnerov" ELSE @,
        !.action =
            IF r.functional = "Perehod k predostavleniyu dostupa cherez +"
               /\ @ = "Tap na knopku"
            THEN "Tap na knopku '+'"
            ELSE IF r.functional = "Otmena otzyva dostupa"
                    /\ @ = "Tap na knopku 'Otmena'"
            THEN "Tap na knopku 'Otmenit'"
            ELSE IF @ = "vybor tega 1" THEN "Vybor tega 1"
            ELSE IF @ = "Tap na uslugu partnyorov" THEN "Tap na uslugu partnerov"
            ELSE IF @ = "'Tap na knopku 'Moi'" THEN "Tap na knopku 'Moi'"
            ELSE @]

\* a row that one of the two conditional substitutions concerns
ConditionalTypo(r) ==
    \/ r.functional = "Perehod k predostavleniyu dostupa cherez +"
       /\ r.action = "Tap na knopku"
    \/ r.functional = "Otmena otzyva dostupa"
       /\ r.action = "Tap na knopku 'Otmena'"

\* C26: on a table with the action and functional columns (of plain text)
\* fix_action_functional_typos returns every row with exactly the
\* substitutions of its docstring: in the two conditional cases the action
\* is replaced and the functional kept, and no row is added or removed
C26_DocumentedSubstitutions ==
    (merged_df # <<>> /\ {"action", "functional"} \subseteq columns) =>
        /\ TyposOut.error = "none"
        /\ TyposOut.df = [i \in 1..Len(merged_df) |-> DocumentedFix(merged_df[i])]

----------------------------------------------------------------------------
(* C27: both collapse passes conserve the time of every session *)

\* the rows of session g in df
RowsOfSession(df, g) == {r \in Range(df) : r.global_session_id = g}

\* the summed duration_seconds of session g in the table before a pass
\* (0 when the table has no such column yet)
SessionDurationBefore(g) ==
    IF "duration_seconds" \in columns
    THEN SumField(RowsOfSession(merged_df, g), "duration_seconds")
    ELSE 0

\* C27: when remove_consecutive_duplicates_with_clicks or
\* collapse_intermediate_screens returns, the sum of duration_seconds over
\* the rows of every session is what it was in the table given to the pass
C27_TimeConserved ==
    \A res \in {DedupOut, ScreenOut} :
        res.error = "none" =>
            \A g \in SessionIds(merged_df) :
                SumField(RowsOfSession(res.df, g), "duration_seconds")
                    = SessionDurationBefore(g)

\* the docstring's events of 3 + 2 + 5 + 5 seconds after both passes: the
\* run collapse has merged the two sentinel events and the two taps, the
\* screen collapse has removed the sentinel row, and the one row left
\* carries the 15 seconds
C27_Witness ==
    /\ stage = "collapse_intermediate_screens"
    /\ error = "none"
    /\ Len(merged_df) = 1
    /\ merged_df[1].rid = 4
    /\ merged_df[1].dbl_count = 1
    /\ merged_df[1].duration_seconds = 15

----------------------------------------------------------------------------
(* The stages in the order main lists them, on raw events, then transform *)

\* raw events of one session at 0, 5 or 12 seconds: the screen 'Esche' is
\* opened or tapped, or another screen is tapped
PipelineTriples ==
    {<<"Esche", "Otkrytie ekrana", not_specified>>,
     <<"Esche", "Otkrytie ekrana", "Tap">>,
     <<"Profil", "Otkrytie ekrana", "Tap">>}

PipelineTimes == {0, 5, 12}

PipelineTables ==
    UNION {[1..n -> PipelineTriples \X PipelineTimes] : n \in 1..MaxRows}

PipelineTable(c) ==
    [i \in 1..Len(c) |->
        Row(i, 1, 2, c[i][2], c[i][1][1], c[i][1][2], c[i][1][3], 0, 0, 0, 0, 0)]

PipelineInit ==
    /\ \/ /\ \E c \in PipelineTables : merged_df = PipelineTable(c)
          /\ columns = BaseColumns
       \/ /\ \E c \in DriverTables : merged_df = DriverTable(c)
          /\ columns = SavedColumns \cup ClickColumns
    /\ stage = "load"
    /\ error = "none"
    /\ features = NoFeatures
    /\ NoRawData

\* stage "before" has returned
After(before) == stage = before /\ error = "none"

\* preprocessor.add_global_session_id() (main.py 82): the merge binds
\* self.merged_df to a new table, main's local merged_df keeps the loaded one
PipelineAddGlobalSessionId ==
    /\ After("load")
    /\ LET res == add_global_session_id(merged_df, columns)
       IN  /\ Assign("add_global_session_id", res, NoFeatures)
           /\ local_merged_df' =
                 IF res.df = merged_df /\ res.columns = columns THEN local_merged_df
                 ELSE [rebound |-> TRUE, df |-> merged_df, columns |-> columns]

\* extractor.transform(merged_df) (main.py 96) on main's local table: the
\* loaded table itself when lines 82-88 are skipped, the table bound at line
\* 76 when the stage calls have run; transform writes its mapping columns
\* into the table it is given
PipelineTransform ==
    \/ /\ After("load")
       /\ Transform
    \/ /\ After("fix_action_functional_typos")
       /\ local_merged_df.rebound
       /\ \E doc \in TaxonomyDocuments :
             LET res == transform(local_merged_df.df, local_merged_df.columns, doc)
             IN  /\ stage' = "transform"
                 /\ error' = res.error
                 /\ features' = IF res.error = "none"
                                 THEN [blocks_data |-> doc, rows |-> res.rows]
                                 ELSE NoFeatures
                 /\ local_merged_df' =
                       [local_merged_df EXCEPT !.columns =
                           IF required_cols \subseteq @ THEN @ \cup mapping_columns ELSE @]
                 /\ UNCHANGED <<merged_df, columns, events_df, users_df, raw_files>>

\* main.py 76-96: the load, the stage calls of lines 82-87 (shipped as
\* comments: a run skips them, or makes them with the comments removed),
\* then transform; save_processed_data (line 88) writes a copy of the table
\* to disk and leaves merged_df alone
PipelineNext ==
    \/ PipelineAddGlobalSessionId
    \/ After("add_global_session_id") /\ CalculateEventDuration
    \/ After("calculate_event_duration") /\ RemoveConsecutiveDuplicatesWithClicks
    \/ After("remove_consecutive_duplicates_with_clicks") /\ CollapseIntermediateScreens
    \/ After("collapse_intermediate_screens") /\ RemoveTrailingEmptyScreens
    \/ After("remove_trailing_empty_screens") /\ FixActionFunctionalTypos
    \/ PipelineTransform

PipelineSpec == PipelineInit /\ [][PipelineNext]_vars

----------------------------------------------------------------------------
(* C28: sess_dur_sec after the whole pipeline *)

\* the table that the five stages, called in order on df, leave for the
\* last of them, and what that stage returns
BeforeTrailing(df, cols) ==
    LET a == add_global_session_id(df, cols)
        d == calculate_event_duration(a.df, a.columns)
        r == remove_consecutive_duplicates_with_clicks(d.df, d.columns)
    IN  collapse_intermediate_screens(r.df, r.columns)

AfterTrailing(df, cols) ==
    remove_trailing_empty_screens(BeforeTrailing(df, cols).df,
                                  BeforeTrailing(df, cols).columns)

\* the seconds between the first and the last raw event of a session
Elapsed(df, dev, sess) ==
    LET times == {df[i].event_time :
                    i \in {j \in 1..Len(df) : SessionPair(df[j]) = <<dev, sess>>}}
    IN  (CHOOSE t \in times : \A u \in times : u <= t) - MinOf(times)

\* C28: for raw events with timestamps (no global_session_id yet), after add_global_session_id,
\* calculate_event_duration, remove_consecutive_duplicates_with_clicks,
\* collapse_intermediate_screens and remove_trailing_empty_screens every row
\* that transform returns has sess_dur_sec equal to the seconds between the
\* first and the last raw event of its session, and every row that
\* remove_trailing_empty_screens has removed had duration_seconds 0
C28_SessionDuration ==
    (After("load") /\ columns = BaseColumns) =>
        LET before == BeforeTrailing(merged_df, columns).df
            after == AfterTrailing(merged_df, columns).df
        IN  /\ \A r \in Range(before) :
                  r.rid \notin Rids(after) => r.duration_seconds = 0
            /\ \A doc \in TaxonomyDocuments :
                  LET out == FeatureTable(after, doc)
                  IN  \A k \in 1..Len(out) :
                          out[k].sess_dur_sec =
                              Elapsed(merged_df, out[k].device_id,
                                      out[k].session_number)

----------------------------------------------------------------------------
(* clean_data and create_features: the events and the users, read from
   events.csv and users.csv by load_data, cleaned and merged into merged_df *)

\* a missing 'Deistvie' cell of events.csv
NoAction == ""

EventColumns == BaseColumns

\* a row of events_df: rid is the line of events.csv, not a column
EventRow(rid, dev, t, act) ==
    [rid |-> rid, device_id |-> dev, session_number |-> 1, event_time |-> t,
     screen |-> "Esche", functional |-> "Otkrytie ekrana", action |-> act]

\* the columns of a row, without the line it came from
Cells(r) == [f \in DOMAIN r \ {"rid"} |-> r[f]]

\* DataFrame.drop_duplicates(): a row equal in every column to an earlier one
\* is removed; NaN equals NaN
drop_duplicates(df) ==
    SelectSeq(df, LAMBDA r :
        \A i \in 1..Len(df) : Cells(df[i]) = Cells(r) => df[i].rid >= r.rid)

\* clean_data: duplicates removed from both tables, a missing action filled
\* with the sentinel, events without time or device removed
clean_data(events, users) ==
    IF IsNone(events) \/ IsNone(users)
    THEN [events |-> events, users |-> users, error |-> "ValueError"]
    ELSE LET deduped == drop_duplicates(events)
             filled  == [i \in 1..Len(deduped) |->
                            IF deduped[i].action = NoAction
                            THEN [deduped[i] EXCEPT !.action = not_specified]
                            ELSE deduped[i]]
             kept    == SelectSeq(filled, LAMBDA r :
                            r.event_time # NaT /\ r.device_id # NaN)
         IN  [events |-> kept, users |-> drop_duplicates(users), error |-> "none"]

get_age_group(age) ==
    IF age = NaN THEN "Neizvestno"
    ELSE IF age < 25 THEN "18-24"
    ELSE IF age < 35 THEN "25-34"
    ELSE IF age < 45 THEN "35-44"
    ELSE IF age < 55 THEN "45-54"
    ELSE IF age < 65 THEN "55-64"
    ELSE "65+"

\* the time features create_features writes into events_df
WithTimeFeatures(r) ==
    [f \in DOMAIN r \cup {"month"} |-> IF f = "month" THEN MonthOf(r.event_time) ELSE r[f]]

\* one row of the left merge: the event's columns and the user's
MergedRow(r, number, age) ==
    [f \in DOMAIN r \cup {"number", "age_back", "age_group"} |->
        IF f = "number" THEN number
        ELSE IF f = "age_back" THEN age
        ELSE IF f = "age_group" THEN get_age_group(age)
        ELSE r[f]]

\* the rows merge(how='left') yields for one event: one per user row whose
\* 'number' is the event's device, in the users' order; one with missing user
\* columns when there is none
MergedRowsOf(r, users) ==
    LET matches == SelectSeq(users, LAMBDA u : u.number = r.device_id)
    IN  IF matches = <<>> THEN <<MergedRow(r, NaN, NaN)>>
        ELSE [k \in 1..Len(matches) |-> MergedRow(r, matches[k].number, matches[k].age_back)]

\* events_df.merge(users_df, left_on=device, right_on='number', how='left'):
\* the left rows in their order
RECURSIVE LeftMerge(_, _)
LeftMerge(events, users) ==
    IF events = <<>> THEN <<>>
    ELSE LeftMerge(Front(events), users) \o MergedRowsOf(Last(events), users)

\* create_features: ValueError without events, otherwise the time features on
\* events_df and the merge with the users in merged_df; merge raises
\* TypeError when users_df is None
create_features(events, users) ==
    IF IsNone(events) \/ Len(events) = 0
    THEN [events |-> events, df |-> <<>>, merged |-> FALSE, error |-> "ValueError"]
    ELSE LET featured == [i \in 1..Len(events) |-> WithTimeFeatures(events[i])]
         IN  IF IsNone(users)
             THEN [events |-> featured, df |-> <<>>, merged |-> FALSE,
                   error |-> "TypeError"]
             ELSE [events |-> featured, df |-> LeftMerge(featured, users),
                   merged |-> TRUE, error |-> "none"]

\* load_data: events_df is read first; a missing file raises
\* FileNotFoundError and leaves what was not yet read as it was
load_data(files, events, users) ==
    IF IsNone(files.events)
    THEN [events |-> events, users |-> users, error |-> "FileNotFoundError"]
    ELSE IF IsNone(files.users)
    THEN [events |-> files.events, users |-> users, error |-> "FileNotFoundError"]
    ELSE [events |-> files.events, users |-> files.users, error |-> "none"]

LoadData ==
    LET res == load_data(raw_files, events_df, users_df)
    IN  /\ stage' = "load_data"
        /\ error' = res.error
        /\ events_df' = res.events
        /\ users_df' = res.users
        /\ UNCHANGED <<merged_df, columns, features, raw_files, local_merged_df>>

CleanData ==
    LET res == clean_data(events_df, users_df)
    IN  /\ stage' = "clean_data"
        /\ error' = res.error
        /\ events_df' = res.events
        /\ users_df' = res.users
        /\ UNCHANGED <<merged_df, columns, features, raw_files, local_merged_df>>

CreateFeatures ==
    LET res == create_features(events_df, users_df)
    IN  /\ stage' = "create_features"
        /\ error' = res.error
        /\ events_df' = res.events
        /\ merged_df' = IF res.merged THEN res.df ELSE merged_df
        /\ columns' = IF res.merged
                      THEN EventColumns \cup {"month", "number", "age_back", "age_group"}
                      ELSE columns
        /\ UNCHANGED <<users_df, features, raw_files, local_merged_df>>

\* the lines of events.csv and of users.csv
RawDevices == {1, 3}
RawTimes == {0, NaT}
RawActions == {"Tap", NoAction}
RawEvents == {<<d, t, a>> : d \in RawDevices, t \in RawTimes, a \in RawActions}
RawUsers == {[number |-> 1, age_back |-> 20], [number |-> 1, age_back |-> 30],
             [number |-> 2, age_back |-> NaN]}
MaxUsers == 2

RawEventTables == UNION {[1..n -> RawEvents] : n \in 0..2}
RawUserTables == UNION {[1..n -> RawUsers] : n \in 0..MaxUsers}

RawEventTable(c) == [i \in 1..Len(c) |-> EventRow(i, c[i][1], c[i][2], c[i][3])]
RawUserTable(c) == [i \in 1..Len(c) |-> [rid |-> i, number |-> c[i].number,
                                           age_back |-> c[i].age_back]]

\* DataPreprocessor(config_path): nothing is loaded; the two files are on
\* disk, or one of them is missing
CreateInit ==
    /\ \E e \in {RawEventTable(c) : c \in RawEventTables} \cup {NoneTable},
          u \in {RawUserTable(c) : c \in RawUserTables} \cup {NoneTable} :
            raw_files = [events |-> e, users |-> u]
    /\ events_df = NoneTable
    /\ users_df = NoneTable
    /\ merged_df = <<>>
    /\ columns = {}
    /\ stage = "init"
    /\ error = "none"
    /\ features = NoFeatures
    /\ local_merged_df = SameTable

CreateNext == LoadData \/ CleanData \/ CreateFeatures

CreateSpec == CreateInit /\ [][CreateNext]_vars

----------------------------------------------------------------------------
(* C29 *)

\* the lines of events.csv behind the rows of a table, in order
Lines(df) == [i \in 1..Len(df) |-> df[i].rid]

\* the users share no 'number'
UniqueNumbers(users) ==
    \A i, j \in 1..Len(users) : users[i].number = users[j].number => i = j

\* C29: after clean_data, create_features yields a merged table with exactly
\* one row per row of the cleaned event table, in the same order, whatever
\* user table clean_data left behind
C29_OneRowPerEvent ==
    (stage = "clean_data" /\ error = "none")
        => LET out == create_features(events_df, users_df)
           IN  out.error = "none" => Lines(out.df) = Lines(events_df)

----------------------------------------------------------------------------
(* process_dataset (apply_funnel_features.py): the feature table of an event
   file, read whole or in chunks of chunksize rows *)

\* chunksize=None
NoChunks == 0

\* pd.read_csv(input_path, chunksize=n): the rows of the file, n at a time;
\* a file without rows gives one empty chunk
RECURSIVE ReadChunks(_, _)
ReadChunks(df, n) ==
    IF Len(df) <= n THEN <<df>>
    ELSE <<SubSeq(df, 1, n)>> \o ReadChunks(SubSeq(df, n + 1, Len(df)), n)

\* pd.concat(df_chunks, ignore_index=True)
RECURSIVE Concat(_)
Concat(tables) ==
    IF tables = <<>> THEN <<>> ELSE Concat(Front(tables)) \o Last(tables)

\* the metrics whose column name ends with '_count'
CountMetrics == {m \in Metrics : m \in {"count", "success_count", "review_count",
                                        "click_count", "dbl_count"}}

\* groupby('global_session_id')[col].first(): the cell of the first row of
\* each session
FirstOfSession(rows, g) ==
    rows[CHOOSE i \in 1..Len(rows) :
            /\ rows[i].global_session_id = g
            /\ \A j \in 1..(i - 1) : rows[j].global_session_id # g]

\* block_stats: the count columns with a session whose first row is positive
block_stats(rows) ==
    {c \in UNION {DOMAIN rows[i].block : i \in 1..Len(rows)} :
        /\ c[2] \in CountMetrics
        /\ \E i \in 1..Len(rows) :
              LET first == FirstOfSession(rows, rows[i].global_session_id)
              IN  c \in DOMAIN first.block /\ first.block[c] > 0}

\* the statistics step: sort_values('Sessii') of a table without columns
report(rows) ==
    IF block_stats(rows) = {} THEN [rows |-> <<>>, error |-> "KeyError"]
    ELSE [rows |-> rows, error |-> "none"]

\* extractor.get_block_info() reads these keys of every block
block_info_keys == {"name", "combinations_count", "total_count"}

\* a document whose block has no counts
TaxonomyBare ==
    << [name |-> "Navigaciya",
        groups |-> << [screen |-> "Esche", functional |-> "Otkrytie ekrana",
                       regular_actions |-> << [action |-> not_specified, step |-> 1] >>] >>] >>

process_dataset(df, cols, doc, chunksize) ==
    IF \E k \in 1..Len(doc) : ~(block_info_keys \subseteq DOMAIN doc[k])
    THEN [rows |-> <<>>, error |-> "KeyError"]
    ELSE IF chunksize # NoChunks
    THEN LET chunks == ReadChunks(df, chunksize)
             done == [k \in 1..Len(chunks) |-> transform(chunks[k], cols, doc)]
             failed == {k \in 1..Len(chunks) : done[k].error # "none"}
         IN  IF failed # {}
             THEN [rows |-> <<>>,
                   error |-> done[CHOOSE k \in failed : \A j \in failed : k <= j].error]
             ELSE report(Concat([k \in 1..Len(chunks) |-> done[k].rows]))
    ELSE IF "global_session_id" \notin cols THEN [rows |-> <<>>, error |-> "KeyError"]
    ELSE LET whole == transform(df, cols, doc)
         IN  IF whole.error # "none" THEN whole ELSE report(whole.rows)

ChunkSizes == {NoChunks, 1, 2}

ProcessDataset ==
    /\ stage = "load"
    /\ \E doc \in TaxonomyDocuments \cup {TaxonomyBare}, chunksize \in ChunkSizes :
          LET res == process_dataset(merged_df, columns, doc, chunksize)
          IN  Call("process_dataset", Outcome(merged_df, columns, res.error),
                   [blocks_data |-> doc, rows |-> res.rows])

\* the input file: a saved table with every column transform requires
ChunkInit ==
    /\ \E c \in SavedTables, reversed \in BOOLEAN : merged_df = SavedTable(c, reversed)
    /\ columns = SavedColumns \cup ClickColumns
    /\ stage = "load"
    /\ error = "none"
    /\ features = NoFeatures
    /\ NoRawData

ChunkNext == ProcessDataset

ChunkSpec == ChunkInit /\ [][ChunkNext]_vars

----------------------------------------------------------------------------
(* C30 *)

\* a session of the file has events in more than one chunk
SplitSession(df, chunksize) ==
    /\ chunksize # NoChunks
    /\ \E i, j \in 1..Len(df) :
          /\ df[i].global_session_id = df[j].global_session_id
          /\ (i - 1) \div chunksize # (j - 1) \div chunksize

\* C30: whatever chunksize process_dataset was run with, what it returned is
\* what it returns for the same file without chunksize: one row per
\* global_session_id with the rollups over all of the session's events
C30_ChunkedSameAsWhole ==
    stage = "process_dataset"
        => LET whole == process_dataset(merged_df, columns, features.blocks_data, NoChunks)
           IN  /\ error = whole.error
               /\ features.rows = whole.rows

====
